---- MODULE Spec2Model ----
(***************************************************************************)
(* A model of the Objective-C header to TypeScript binding generator       *)
(* (scripts/generate-ts-api.ts).  Text is modelled as a sequence of        *)
(* one-character strings, so that the regular expressions of the source    *)
(* are evaluated character by character, as the regexp engine does.        *)
(***************************************************************************)
EXTENDS Integers, Sequences, FiniteSets, TLC

VARIABLES
    \* parseMethodSignature run on one declaration
    decl,             \* the declaration, as a head and a sequence of pieces
    signature,        \* its text, the argument of parseMethodSignature
    method,           \* what parseMethodSignature returned
    sigPc,            \* "input", then "parsed" or "threw"
    \* main, class mode: the emission of one class, then calls of the emitted code
    cls,              \* the class model c
    classDeclaration, \* the members added to the emitted class, in order
    methodGroups,     \* the insertion-ordered entries of methodGroups
    groupIdx,         \* the entry the emission loop is at
    genPc,            \* "idle", "properties", "group", "methods", "done", "aborted"
    call,             \* the last call of an emitted overload implementation
    \* parseObjCHeaderFile: the lines of the header and the scanner's locals
    scan,
    \* parsePropertyDeclaration run on one declaration, and the type texts
    \* emitted for the property it returned
    propRun,
    \* the type mapping functions run on one native type name
    convRun,
    \* parseDocumentation run on one doc block
    docRun,
    \* main, class mode: the source files created for the extracted classes
    importRun,
    \* the reflow of the overloads of one emitted class (the post-processing
    \* pass of main, and groupMethodOverloads of scripts/format-ts-file.ts)
    reflowRun

sigVars == <<decl, signature, method, sigPc>>
genVars == <<cls, classDeclaration, methodGroups, groupIdx, genPc, call>>
fileVars == <<importRun, reflowRun>>
restVars == <<scan, propRun, convRun, docRun, importRun, reflowRun>>
vars == <<decl, signature, method, sigPc,
          cls, classDeclaration, methodGroups, groupIdx, genPc, call,
          scan, propRun, convRun, docRun, importRun, reflowRun>>

\* the value of a variable of a function that is not run
Idle == [pc |-> "idle"]
FilesIdle == importRun = Idle /\ reflowRun = Idle
RestIdle ==
    scan = Idle /\ propRun = Idle /\ convRun = Idle /\ docRun = Idle /\ FilesIdle

(***************************************************************************)
(* Characters and character classes of the regular expressions.            *)
(***************************************************************************)
LowerChars == {"a", "b", "c", "d", "e", "f", "g", "h", "i", "j", "k", "l", "m",
               "n", "o", "p", "q", "r", "s", "t", "u", "v", "w", "x", "y", "z"}
UpperChars == {"A", "B", "C", "D", "E", "F", "G", "H", "I", "J", "K", "L", "M",
               "N", "O", "P", "Q", "R", "S", "T", "U", "V", "W", "X", "Y", "Z"}
DigitChars == {"0", "1", "2", "3", "4", "5", "6", "7", "8", "9"}
\* \w
WordChars == LowerChars \cup UpperChars \cup DigitChars \cup {"_"}
\* \s (the inputs of the model hold no other white space than the blank and
\* the line feed)
SpaceChars == {" ", "\n"}
\* every other character an input of the model holds
SymbolChars == {"+", "-", "(", ")", ":", ";", "*", "^", "<", ">", ",", "@",
                "/", "!", "|", "{", "}", "?", "=", "#", "."}
Chars == WordChars \cup SpaceChars \cup SymbolChars
\* [^)]
NotRParenChars == Chars \ {")"}
\* [\w\s*]
ReturnTypeChars == WordChars \cup SpaceChars \cup {"*"}
\* [+-]
SigilChars == {"+", "-"}

(***************************************************************************)
(* String primitives of the host language.                                 *)
(***************************************************************************)
\* s.substring(a, b) on 1-based positions: the characters a .. b-1
Sub(s, a, b) == SubSeq(s, a, b - 1)

\* the position just past the longest run of characters of class C that
\* starts at position i (a greedy C* of a regular expression)
RECURSIVE RunEnd(_, _, _)
RunEnd(s, i, C) ==
    IF i <= Len(s) /\ s[i] \in C THEN RunEnd(s, i + 1, C) ELSE i

\* the position of the last character of s that is not of class C, 0 if none
RECURSIVE LastNotIn(_, _, _)
LastNotIn(s, i, C) ==
    IF i >= 1 /\ s[i] \in C THEN LastNotIn(s, i - 1, C) ELSE i

\* String.prototype.trim
Trim(s) == Sub(s, RunEnd(s, 1, SpaceChars), LastNotIn(s, Len(s), SpaceChars) + 1)

\* String.prototype.startsWith / endsWith
StartsWith(s, lit) == Len(s) >= Len(lit) /\ SubSeq(s, 1, Len(lit)) = lit
EndsWith(s, lit) ==
    Len(s) >= Len(lit) /\ SubSeq(s, Len(s) - Len(lit) + 1, Len(s)) = lit

\* lit occurs in s at position i
OccursAt(s, lit, i) ==
    i >= 1 /\ i + Len(lit) - 1 <= Len(s) /\ SubSeq(s, i, i + Len(lit) - 1) = lit

\* String.prototype.indexOf, 1-based; 0 when lit does not occur from `from` on
RECURSIVE IndexOfFrom(_, _, _)
IndexOfFrom(s, lit, from) ==
    IF from + Len(lit) - 1 > Len(s) THEN 0
    ELSE IF OccursAt(s, lit, from) THEN from
    ELSE IndexOfFrom(s, lit, from + 1)

IndexOf(s, lit) == IndexOfFrom(s, lit, 1)

\* String.prototype.includes
Includes(s, lit) == IndexOf(s, lit) # 0

\* String.prototype.replace(lit, by): the first occurrence only
ReplaceFirst(s, lit, by) ==
    LET i == IndexOf(s, lit)
    IN  IF i = 0 THEN s
        ELSE Sub(s, 1, i) \o by \o Sub(s, i + Len(lit), Len(s) + 1)

\* ch.repeat(n)
Repeat(ch, n) == [i \in 1..n |-> ch]

\* the number of characters of s equal to ch
RECURSIVE CountChar(_, _)
CountChar(s, ch) ==
    IF s = <<>> THEN 0
    ELSE (IF Head(s) = ch THEN 1 ELSE 0) + CountChar(Tail(s), ch)

\* the concatenation of a sequence of strings
RECURSIVE Concat(_)
Concat(ss) == IF ss = <<>> THEN <<>> ELSE Head(ss) \o Concat(Tail(ss))

(***************************************************************************)
(* Literals of the source.                                                 *)
(***************************************************************************)
StrSemicolon == <<";">>
StrColon == <<":">>
StrPlus == <<"+">>
StrStar == <<"*">>
StrNullable == <<"n", "u", "l", "l", "a", "b", "l", "e">>
StrApiAvailable ==
    <<"A", "P", "I", "_", "A", "V", "A", "I", "L", "A", "B", "L", "E", "(">>
StrLParen == <<"(">>
StrRParen == <<")">>

(***************************************************************************)
(* parseMethodSignature                                                    *)
(***************************************************************************)
NoMatch == [ok |-> FALSE, end |-> 0, g1 |-> <<>>, g2 |-> <<>>, g3 |-> <<>>]

\* /[+-]\s*\(([\w\s*]+)\)/ tried at position i
ReturnTypeMatchAt(s, i) ==
    IF ~(i <= Len(s) /\ s[i] \in SigilChars) THEN NoMatch
    ELSE LET p == RunEnd(s, i + 1, SpaceChars)
         IN  IF ~(p <= Len(s) /\ s[p] = "(") THEN NoMatch
             ELSE LET t == RunEnd(s, p + 1, ReturnTypeChars)
                  IN  IF t = p + 1 \/ ~(t <= Len(s) /\ s[t] = ")") THEN NoMatch
                      ELSE [ok |-> TRUE, end |-> t + 1, g1 |-> Sub(s, p + 1, t),
                            g2 |-> <<>>, g3 |-> <<>>]

\* /[+-]\s*\([^)]+\)\s*(\w+(?:With\w+)?)/ tried at position i; the greedy \w+
\* already takes every word character, so the optional group adds nothing
MethodNameMatchAt(s, i) ==
    IF ~(i <= Len(s) /\ s[i] \in SigilChars) THEN NoMatch
    ELSE LET p == RunEnd(s, i + 1, SpaceChars)
         IN  IF ~(p <= Len(s) /\ s[p] = "(") THEN NoMatch
             ELSE LET t == RunEnd(s, p + 1, NotRParenChars)
                  IN  IF t = p + 1 \/ t > Len(s) THEN NoMatch
                      ELSE LET q == RunEnd(s, t + 1, SpaceChars)
                               e == RunEnd(s, q, WordChars)
                           IN  IF e = q THEN NoMatch
                               ELSE [ok |-> TRUE, end |-> e, g1 |-> Sub(s, q, e),
                                     g2 |-> <<>>, g3 |-> <<>>]

\* /(\w+):\s*\(([^)]+)\)\s*(\w+)/ tried at position i
ParamMatchAt(s, i) ==
    LET e1 == RunEnd(s, i, WordChars)
    IN  IF e1 = i \/ ~(e1 <= Len(s) /\ s[e1] = ":") THEN NoMatch
        ELSE LET p == RunEnd(s, e1 + 1, SpaceChars)
             IN  IF ~(p <= Len(s) /\ s[p] = "(") THEN NoMatch
                 ELSE LET t == RunEnd(s, p + 1, NotRParenChars)
                      IN  IF t = p + 1 \/ t > Len(s) THEN NoMatch
                          ELSE LET q == RunEnd(s, t + 1, SpaceChars)
                                   e3 == RunEnd(s, q, WordChars)
                               IN  IF e3 = q THEN NoMatch
                                   ELSE [ok |-> TRUE, end |-> e3,
                                         g1 |-> Sub(s, i, e1),
                                         g2 |-> Sub(s, p + 1, t),
                                         g3 |-> Sub(s, q, e3)]

\* /(\w+):/ tried at position i; g1 is the whole match, colon included
ComponentMatchAt(s, i) ==
    LET e == RunEnd(s, i, WordChars)
    IN  IF e = i \/ ~(e <= Len(s) /\ s[e] = ":") THEN NoMatch
        ELSE [ok |-> TRUE, end |-> e + 1, g1 |-> Sub(s, i, e + 1),
              g2 |-> <<>>, g3 |-> <<>>]

\* String.prototype.match without the g flag: the leftmost match
RECURSIVE FirstReturnTypeMatch(_, _)
FirstReturnTypeMatch(s, i) ==
    IF i > Len(s) THEN NoMatch
    ELSE IF ReturnTypeMatchAt(s, i).ok THEN ReturnTypeMatchAt(s, i)
    ELSE FirstReturnTypeMatch(s, i + 1)

RECURSIVE FirstMethodNameMatch(_, _)
FirstMethodNameMatch(s, i) ==
    IF i > Len(s) THEN NoMatch
    ELSE IF MethodNameMatchAt(s, i).ok THEN MethodNameMatchAt(s, i)
    ELSE FirstMethodNameMatch(s, i + 1)

\* one parameter of the while loop over paramRegex.exec
ParameterOf(m) ==
    LET paramType == Trim(m.g2)
        cleanType == Trim(ReplaceFirst(ReplaceFirst(paramType, StrNullable, <<>>),
                                       StrStar, <<>>))
    IN  [name |-> m.g3, type |-> cleanType,
         isNullable |-> Includes(paramType, StrNullable)]

\* the while loop over paramRegex.exec(signature): every match, left to right,
\* each search starting where the previous match ended
RECURSIVE ParseParameters(_, _)
ParseParameters(s, i) ==
    IF i > Len(s) THEN <<>>
    ELSE IF ParamMatchAt(s, i).ok
         THEN <<ParameterOf(ParamMatchAt(s, i))>>
              \o ParseParameters(s, ParamMatchAt(s, i).end)
    ELSE ParseParameters(s, i + 1)

\* signature.match(/(\w+):/g) || []
RECURSIVE ComponentNames(_, _)
ComponentNames(s, i) ==
    IF i > Len(s) THEN <<>>
    ELSE IF ComponentMatchAt(s, i).ok
         THEN <<ComponentMatchAt(s, i).g1>>
              \o ComponentNames(s, ComponentMatchAt(s, i).end)
    ELSE ComponentNames(s, i + 1)

\* the availability string of /API_AVAILABLE\(([^)]+)\)/, closed when it holds
\* an opening parenthesis and does not end with a closing one
Availability(s) ==
    LET i == IndexOf(s, StrApiAvailable)
        a == i + Len(StrApiAvailable)
        t == RunEnd(s, a, NotRParenChars)
    IN  IF i = 0 \/ t = a \/ t > Len(s) THEN <<>>
        ELSE LET av == Sub(s, a, t)
             IN  IF Includes(av, StrLParen) /\ ~EndsWith(av, StrRParen)
                 THEN av \o StrRParen ELSE av

\* the selector assembled from the base name and the component names
FullMethodNameMutant(baseMethodName, componentNames) ==
    baseMethodName \o Concat(componentNames)

FullMethodName(baseMethodName, componentNames) ==
    IF Len(componentNames) > 0
    THEN baseMethodName \o StrColon \o Concat(Tail(componentNames))
    ELSE baseMethodName

Threw == [threw |-> TRUE, isClassMethod |-> FALSE, returnType |-> <<>>,
          name |-> <<>>, parameters |-> <<>>, availability |-> <<>>]

\* the signature after trim() and the removal of one trailing semicolon
CleanSignature(text) ==
    LET s == Trim(text)
    IN  IF EndsWith(s, StrSemicolon) THEN Sub(s, 1, Len(s)) ELSE s

parseMethodSignature(text) ==
    LET s == CleanSignature(text)
        returnTypeMatch == FirstReturnTypeMatch(s, 1)
        methodNameMatch == FirstMethodNameMatch(s, 1)
    IN  IF ~returnTypeMatch.ok THEN Threw
        ELSE IF ~methodNameMatch.ok THEN Threw
        ELSE [threw |-> FALSE,
              isClassMethod |-> StartsWith(s, StrPlus),
              returnType |-> Trim(returnTypeMatch.g1),
              name |-> FullMethodName(Trim(methodNameMatch.g1),
                                      ComponentNames(s, 1)),
              parameters |-> ParseParameters(s, 1),
              availability |-> Availability(s)]

(***************************************************************************)
(* The declarations the parser is run on: a head (sigil and return type)   *)
(* followed by at most MaxPieces pieces.                                   *)
(***************************************************************************)
MaxPieces == 3

Heads == <<
    <<"+", " ", "(", "T", " ", "*", ")">>,
    <<"-", " ", "(", "v", ")">>,
    <<" ", "-", "(", "v", ")", " ">>,
    <<"-", " ">>,
    <<"+", " ", "(", "v", " ", "(", "^", ")", "(", "v", ")", ")">> >>

Pieces == <<
    <<"f", "o">>,
    <<"f", "o", ":", "(", "T", ")", "x", " ">>,
    <<"b", "a", ":", "(", "n", "u", "l", "l", "a", "b", "l", "e", " ", "T",
      " ", "*", ")", "y", " ">>,
    <<"f", "o", ":", "(", "v", " ", "(", "^", ")", "(", "v", ")", ")", "x", " ">>,
    <<"f", "o", ":", "x", " ">>,
    <<"N", "S", "_", "S", "W", "I", "F", "T", "_", "N", "A", "M", "E", "(",
      "f", "o", "(", "x", ":", ")", ")", " ">>,
    <<"A", "P", "I", "_", "A", "V", "A", "I", "L", "A", "B", "L", "E", "(",
      "m", "(", "1", ")", ")", " ">>,
    <<";">>,
    <<"b", "a", ":", "(", "T", " ", "*", " ", "_", "N", "u", "l", "l", "a",
      "b", "l", "e", ")", "y", " ">> >>

\* the text of a piece before its colon, and after its closing parenthesis
BeforeColon(piece) == Sub(piece, 1, IndexOf(piece, StrColon))
AfterRParen(piece) == Trim(Sub(piece, IndexOf(piece, StrRParen) + 1, Len(piece) + 1))

\* the heads with a parenthesised return type of word characters
GoodHeads == {1, 2, 3}
\* the pieces of the form label:(type)name, their labels and parameter names
ParamPieces == {2, 3}
PieceLabel(p) == BeforeColon(Pieces[p])
PieceParamName(p) == AfterRParen(Pieces[p])
BarePiece == CHOOSE p \in 1..Len(Pieces) : Pieces[p] = <<"f", "o">>
SemicolonPiece == CHOOSE p \in 1..Len(Pieces) : Pieces[p] = StrSemicolon

Bodies == UNION {[1..n -> 1..Len(Pieces)] : n \in 0..MaxPieces}

Render(d) == Heads[d.head] \o Concat([i \in 1..Len(d.body) |-> Pieces[d.body[i]]])

(***************************************************************************)
(* main, class mode: literals and helpers of the emission.                 *)
(***************************************************************************)
StrInit == <<"i", "n", "i", "t">>
StrSet == <<"s", "e", "t">>
StrStaticPrefix == <<"s", "t", "a", "t", "i", "c", "_">>
StrUnderscoreNullable == <<"_", "N", "u", "l", "l", "a", "b", "l", "e">>
StrClass == <<"C", "l", "a", "s", "s">>
StrPointer == <<"p", "o", "i", "n", "t", "e", "r">>
StrValue == <<"v", "a", "l", "u", "e">>
StrArgs == <<"a", "r", "g", "s">>
StrParams == <<"p", "a", "r", "a", "m", "s">>
StrAny == <<"a", "n", "y">>
StrAnyArray == <<"a", "n", "y", "[", "]">>
StrId == <<"i", "d">>
StrVoid == <<"v", "o", "i", "d">>
StrNullSuffix == <<" ", "|", " ", "n", "u", "l", "l">>
StrReadonly == <<"r", "e", "a", "d", "o", "n", "l", "y">>
StrConstructor == <<"c", "o", "n", "s", "t", "r", "u", "c", "t", "o", "r">>

LowerSeq == <<"a", "b", "c", "d", "e", "f", "g", "h", "i", "j", "k", "l", "m",
              "n", "o", "p", "q", "r", "s", "t", "u", "v", "w", "x", "y", "z">>
UpperSeq == <<"A", "B", "C", "D", "E", "F", "G", "H", "I", "J", "K", "L", "M",
              "N", "O", "P", "Q", "R", "S", "T", "U", "V", "W", "X", "Y", "Z">>

\* String.prototype.toUpperCase / toLowerCase on one character
ToUpperChar(c) ==
    IF c \in LowerChars
    THEN UpperSeq[CHOOSE i \in 1..Len(LowerSeq) : LowerSeq[i] = c] ELSE c
ToLowerChar(c) ==
    IF c \in UpperChars
    THEN LowerSeq[CHOOSE i \in 1..Len(UpperSeq) : UpperSeq[i] = c] ELSE c

\* s.charAt(0).toUpperCase() + s.slice(1), and the same with toLowerCase
UpperFirst(s) == IF s = <<>> THEN s ELSE <<ToUpperChar(Head(s))>> \o Tail(s)
LowerFirst(s) == IF s = <<>> THEN s ELSE <<ToLowerChar(Head(s))>> \o Tail(s)

\* name.split(":")[0]
BeforeFirstColon(name) ==
    IF Includes(name, StrColon) THEN Sub(name, 1, IndexOf(name, StrColon)) ELSE name

\* s.replace(/:/g, "_")
ColonsToUnderscores(s) == [i \in 1..Len(s) |-> IF s[i] = ":" THEN "_" ELSE s[i]]

\* the typeMap of convertObjCTypeToTypeScriptString, as <<key, value>> pairs
typeMapString == <<
    <<<<"v", "o", "i", "d">>, <<"v", "o", "i", "d">>>>,
    <<<<"B", "O", "O", "L">>, <<"b", "o", "o", "l", "e", "a", "n">>>>,
    <<<<"N", "S", "I", "n", "t", "e", "g", "e", "r">>,
      <<"n", "u", "m", "b", "e", "r">>>>,
    <<<<"N", "S", "U", "I", "n", "t", "e", "g", "e", "r">>,
      <<"n", "u", "m", "b", "e", "r">>>>,
    <<<<"C", "G", "F", "l", "o", "a", "t">>, <<"n", "u", "m", "b", "e", "r">>>>,
    <<<<"d", "o", "u", "b", "l", "e">>, <<"n", "u", "m", "b", "e", "r">>>>,
    <<<<"f", "l", "o", "a", "t">>, <<"n", "u", "m", "b", "e", "r">>>>,
    <<<<"i", "n", "t">>, <<"n", "u", "m", "b", "e", "r">>>>,
    <<<<"N", "S", "S", "t", "r", "i", "n", "g", "*">>,
      <<"s", "t", "r", "i", "n", "g">>>>,
    <<<<"i", "d">>, <<"i", "d">>>> >>

\* typeMap[key], <<>> standing for undefined
Lookup(map, key) ==
    IF \E i \in 1..Len(map) : map[i][1] = key
    THEN map[CHOOSE i \in 1..Len(map) : map[i][1] = key][2]
    ELSE <<>>

\* the own properties every object literal inherits from Object.prototype:
\* methodGroups[key] is truthy for them before anything is stored under key
ObjectPrototypeKeys == {
    <<"c", "o", "n", "s", "t", "r", "u", "c", "t", "o", "r">>,
    <<"t", "o", "S", "t", "r", "i", "n", "g">>,
    <<"v", "a", "l", "u", "e", "O", "f">>,
    <<"h", "a", "s", "O", "w", "n", "P", "r", "o", "p", "e", "r", "t", "y">>,
    <<"i", "s", "P", "r", "o", "t", "o", "t", "y", "p", "e", "O", "f">>,
    <<"p", "r", "o", "p", "e", "r", "t", "y", "I", "s", "E", "n", "u", "m", "e",
      "r", "a", "b", "l", "e">>,
    <<"t", "o", "L", "o", "c", "a", "l", "e", "S", "t", "r", "i", "n", "g">>,
    <<"_", "_", "p", "r", "o", "t", "o", "_", "_">>,
    <<"_", "_", "d", "e", "f", "i", "n", "e", "G", "e", "t", "t", "e", "r", "_", "_">>,
    <<"_", "_", "d", "e", "f", "i", "n", "e", "S", "e", "t", "t", "e", "r", "_", "_">>,
    <<"_", "_", "l", "o", "o", "k", "u", "p", "G", "e", "t", "t", "e", "r", "_", "_">>,
    <<"_", "_", "l", "o", "o", "k", "u", "p", "S", "e", "t", "t", "e", "r", "_", "_">> }

\* what reading an object literal at a key it does not own but inherits from
\* Object.prototype gives: a function, written here as its kind
StrFunction == <<"f", "u", "n", "c", "t", "i", "o", "n">>

\* literal[key]: the own entry, else the inherited member, else <<>> for undefined
ReadLiteral(map, key) ==
    IF Lookup(map, key) # <<>> THEN Lookup(map, key)
    ELSE IF key \in ObjectPrototypeKeys THEN StrFunction
    ELSE <<>>

convertObjCTypeToTypeScriptString(objcType) ==
    IF objcType = <<>> THEN StrVoid
    ELSE LET isNullable == \/ Includes(objcType, StrNullable)
                           \/ Includes(objcType, StrUnderscoreNullable)
             trimmed == Trim(ReplaceFirst(ReplaceFirst(objcType, StrNullable, <<>>),
                                          StrUnderscoreNullable, <<>>))
             cleanType == IF EndsWith(trimmed, StrStar)
                          THEN Sub(trimmed, 1, Len(trimmed)) ELSE trimmed
             mapped == ReadLiteral(typeMapString, cleanType)
             tsType == IF mapped = <<>> THEN StrId ELSE mapped
         IN  IF isNullable THEN tsType \o StrNullSuffix ELSE tsType

(***************************************************************************)
(* Method grouping (the loop over c.methods that fills methodGroups).      *)
(***************************************************************************)
\* the key of a method: "static_" for a class method, then the base name
MethodKey(m) ==
    (IF m.isClassMethod THEN StrStaticPrefix ELSE <<>>) \o BeforeFirstColon(m.name)

HasKey(groups, key) == \E i \in 1..Len(groups) : groups[i].key = key

\* methodGroups[methodKey].push(method), after the entry is created if absent
PushToGroup(groups, key, m) ==
    IF HasKey(groups, key)
    THEN [i \in 1..Len(groups) |->
            IF groups[i].key = key
            THEN [groups[i] EXCEPT !.methods = Append(@, m)] ELSE groups[i]]
    ELSE Append(groups, [key |-> key, methods |-> <<m>>])

\* method.name.startsWith("init"): initializers are left to the constructor
IsInitializerMutant(m) == FALSE

IsInitializer(m) == StartsWith(m.name, StrInit)

\* the loop; threw: methodGroups[methodKey] was an inherited property of the
\* object literal, which has no push, and the TypeError left the loop
RECURSIVE GroupLoop(_, _)
GroupLoop(methods, groups) ==
    IF methods = <<>> THEN [threw |-> FALSE, groups |-> groups]
    ELSE LET m == Head(methods)
         IN  IF IsInitializer(m) THEN GroupLoop(Tail(methods), groups)
             ELSE IF ~HasKey(groups, MethodKey(m))
                     /\ MethodKey(m) \in ObjectPrototypeKeys
                  THEN [threw |-> TRUE, groups |-> groups]
             ELSE GroupLoop(Tail(methods), PushToGroup(groups, MethodKey(m), m))

(***************************************************************************)
(* The emitted class: the members added through the ts-morph class         *)
(* declaration, in the order they are added.                               *)
(***************************************************************************)
Param(name, type, hasQuestionToken, isRestParameter) ==
    [name |-> name, type |-> type, hasQuestionToken |-> hasQuestionToken,
     isRestParameter |-> isRestParameter]

Member(kind, name, isStatic, hasBody, returnType, params, body) ==
    [kind |-> kind, name |-> name, isStatic |-> isStatic, hasBody |-> hasBody,
     returnType |-> returnType, params |-> params, body |-> body]

\* a declaration without a body, or a member whose body sends nothing
NoBody == [form |-> "none", target |-> "", selector |-> <<>>, args |-> <<>>,
           namedParams |-> <<>>, branches |-> <<>>, errorName |-> <<>>]

\* the body `[return] objc.msgSend(target, "selector", args...);`
SendBody(target, selector, args) ==
    [form |-> "send", target |-> target, selector |-> selector, args |-> args,
     namedParams |-> <<>>, branches |-> <<>>, errorName |-> <<>>]

\* the body of an overload implementation: allArgs is collected from the named
\* parameters and the rest parameter, then the if / else-if chain of branches
\* (allArgs.length === arity sends selector) and the throwing else
DispatchBody(target, namedParams, branches, errorName) ==
    [form |-> "dispatch", target |-> target, selector |-> <<>>, args |-> <<>>,
     namedParams |-> namedParams, branches |-> branches, errorName |-> errorName]

Target(isClassMethod) == IF isClassMethod THEN "Class" ELSE "this.pointer"

\* classDeclaration.getSetAccessor(name) is defined
getSetAccessor(cd, name) ==
    \E i \in 1..Len(cd) : cd[i].kind = "set" /\ cd[i].name = name

\* one iteration of the loop over c.properties
EmitPropertyMutant(cd, property) ==
    LET tsType == convertObjCTypeToTypeScriptString(property.type)
    IN  cd \o <<Member("get", property.name, FALSE, TRUE, tsType, <<>>,
                       SendBody("this.pointer", property.name, <<>>)),
                Member("set", property.name, FALSE, TRUE, <<>>,
                       <<Param(StrValue, tsType, FALSE, FALSE)>>,
                       SendBody("this.pointer",
                                StrSet \o UpperFirst(property.name) \o StrColon,
                                <<StrValue>>))>>

EmitProperty(cd, property) ==
    IF property.name = <<>> THEN cd
    ELSE LET tsType == convertObjCTypeToTypeScriptString(property.type)
             getter == Member("get", property.name, FALSE, TRUE, tsType, <<>>,
                              SendBody("this.pointer", property.name, <<>>))
             setter == Member("set", property.name, FALSE, TRUE, <<>>,
                              <<Param(StrValue, tsType, FALSE, FALSE)>>,
                              SendBody("this.pointer",
                                       StrSet \o UpperFirst(property.name)
                                           \o StrColon,
                                       <<StrValue>>))
         IN  IF property.isReadOnly THEN Append(cd, getter)
             ELSE cd \o <<getter, setter>>

RECURSIVE EmitPropertiesLoop(_, _)
EmitPropertiesLoop(cd, properties) ==
    IF properties = <<>> THEN cd
    ELSE EmitPropertiesLoop(EmitProperty(cd, Head(properties)), Tail(properties))

\* the class with its Class and pointer properties, the accessors of the
\* properties and the constructor
ClassWithProperties(c) ==
    EmitPropertiesLoop(
        <<Member("property", StrClass, TRUE, FALSE, <<>>, <<>>, NoBody),
          Member("property", StrPointer, FALSE, FALSE, StrId, <<>>, NoBody)>>,
        c.properties)
    \o <<Member("constructor", StrConstructor, FALSE, TRUE, <<>>, <<>>,
                SendBody("Class", StrInit, <<>>))>>

(***************************************************************************)
(* One iteration of the loop over Object.entries(methodGroups).            *)
(***************************************************************************)
isSetterMethod(firstMethod) ==
    /\ StartsWith(firstMethod.name, StrSet)
    /\ Len(firstMethod.parameters) = 1
    /\ Len(firstMethod.name) > 4
    /\ firstMethod.name[4] = ToUpperChar(firstMethod.name[4])
    /\ EndsWith(firstMethod.name, StrColon)

\* the property name a setter-shaped method stands for
SetterPropertyName(firstMethod) ==
    ColonsToUnderscores(
        IF StartsWith(firstMethod.name, StrSet)
        THEN LowerFirst(Sub(firstMethod.name, 4, Len(firstMethod.name)))
        ELSE Sub(firstMethod.name, 1, Len(firstMethod.name)))

\* the selector written into a bridge call
MethodNameWithColons(m) ==
    IF Includes(m.name, StrColon) THEN m.name
    ELSE m.name \o Repeat(":", Len(m.parameters))

\* `{ a?: T, b: U }`, the type of the single parameter of a signature whose
\* member has several parameters
RECURSIVE JoinParamTypes(_)
JoinParamTypes(ps) ==
    IF ps = <<>> THEN <<>>
    ELSE Head(ps).name
         \o (IF Head(ps).isNullable THEN <<"?">> ELSE <<>>)
         \o <<":", " ">> \o convertObjCTypeToTypeScriptString(Head(ps).type)
         \o (IF Len(ps) > 1 THEN <<",", " ">> ELSE <<>>)
         \o JoinParamTypes(Tail(ps))

ParamStructure(ps) == <<"{", " ">> \o JoinParamTypes(ps) \o <<" ", "}">>

\* the parameters of the overload signature of one member
SignatureParams(overloadMethod) ==
    IF Len(overloadMethod.parameters) = 0 THEN <<>>
    ELSE IF Len(overloadMethod.parameters) = 1
    THEN <<Param(overloadMethod.parameters[1].name,
                 convertObjCTypeToTypeScriptString(overloadMethod.parameters[1].type),
                 overloadMethod.parameters[1].isNullable, FALSE)>>
    ELSE <<Param(StrParams, ParamStructure(overloadMethod.parameters), FALSE, FALSE)>>

OverloadSignature(baseMethodName, isClassMethod, overloadMethod) ==
    Member("method", baseMethodName, isClassMethod, FALSE,
           convertObjCTypeToTypeScriptString(overloadMethod.returnType),
           SignatureParams(overloadMethod), NoBody)

HasParam(ps, name) == \E i \in 1..Len(ps) : ps[i].name = name

OptionalParam(param) ==
    Param(param.name, convertObjCTypeToTypeScriptString(param.type), TRUE, FALSE)

\* the parameters of a member with several parameters: each is added unless
\* the implementation already has a parameter of that name
RECURSIVE AddUnlessPresent(_, _)
AddUnlessPresent(ps, parameters) ==
    IF parameters = <<>> THEN ps
    ELSE AddUnlessPresent(
             IF HasParam(ps, Head(parameters).name) THEN ps
             ELSE Append(ps, OptionalParam(Head(parameters))),
             Tail(parameters))

\* the named parameters of the implementation, member after member
RECURSIVE ImplementationParams(_, _)
ImplementationParams(methods, ps) ==
    IF methods = <<>> THEN ps
    ELSE LET parameters == Head(methods).parameters
         IN  ImplementationParams(
                 Tail(methods),
                 IF Len(parameters) = 0 THEN ps
                 ELSE IF Len(parameters) = 1
                 THEN Append(ps, OptionalParam(parameters[1]))
                 ELSE AddUnlessPresent(ps, parameters))

\* the if / else-if chain: one branch per member, in the order of the group
BranchesMutant(methods) ==
    [i \in 1..Len(methods) |->
        [arity |-> Len(methods[Len(methods) + 1 - i].parameters),
         selector |-> MethodNameWithColons(methods[Len(methods) + 1 - i])]]

Branches(methods) ==
    [i \in 1..Len(methods) |->
        [arity |-> Len(methods[i].parameters),
         selector |-> MethodNameWithColons(methods[i])]]

NamesOf(ps) == [i \in 1..Len(ps) |-> ps[i].name]

\* the implementation of an overload group
ImplementationMethod(baseMethodName, isClassMethod, methods) ==
    Member("method", baseMethodName, isClassMethod, TRUE, StrAny,
           Append(ImplementationParams(methods, <<>>),
                  Param(StrArgs, StrAnyArray, FALSE, TRUE)),
           DispatchBody(Target(isClassMethod),
                        NamesOf(ImplementationParams(methods, <<>>)),
                        Branches(methods), baseMethodName))

\* the method of a group of one member
RegularMethod(isClassMethod, firstMethod) ==
    Member("method", BeforeFirstColon(firstMethod.name), isClassMethod, TRUE,
           convertObjCTypeToTypeScriptString(firstMethod.returnType),
           [i \in 1..Len(firstMethod.parameters) |->
               Param(firstMethod.parameters[i].name,
                     convertObjCTypeToTypeScriptString(firstMethod.parameters[i].type),
                     firstMethod.parameters[i].isNullable, FALSE)],
           IF Len(firstMethod.parameters) = 0
           THEN SendBody(Target(isClassMethod), firstMethod.name, <<>>)
           ELSE SendBody(Target(isClassMethod), MethodNameWithColons(firstMethod),
                         NamesOf(firstMethod.parameters)))

SetterAccessor(firstMethod) ==
    Member("set", SetterPropertyName(firstMethod), FALSE, TRUE, <<>>,
           <<Param(StrValue,
                   convertObjCTypeToTypeScriptString(firstMethod.parameters[1].type),
                   FALSE, FALSE)>>,
           SendBody("this.pointer", firstMethod.name, <<StrValue>>))

\* the class method flag and the method name the emission reads back from
\* the key of a group
KeyIsClassMethod(methodKey) == StartsWith(methodKey, StrStaticPrefix)
KeyBaseMethodName(methodKey) == ReplaceFirst(methodKey, StrStaticPrefix, <<>>)

\* the members of the class after the iteration for one group
EmitGroup(cd, group) ==
    LET isClassMethod == KeyIsClassMethod(group.key)
        baseMethodName == KeyBaseMethodName(group.key)
        methods == group.methods
        firstMethod == methods[1]
    IN  IF isSetterMethod(firstMethod)
        THEN IF getSetAccessor(cd, SetterPropertyName(firstMethod)) THEN cd
             ELSE Append(cd, SetterAccessor(firstMethod))
        ELSE IF Len(methods) > 1
        THEN cd
             \o [i \in 1..Len(methods) |->
                    OverloadSignature(baseMethodName, isClassMethod, methods[i])]
             \o <<ImplementationMethod(baseMethodName, isClassMethod, methods)>>
        ELSE Append(cd, RegularMethod(isClassMethod, firstMethod))

(***************************************************************************)
(* A call of an emitted overload implementation, as the emitted text runs. *)
(***************************************************************************)
\* the value `undefined`; the i-th argument of a call is i or undefined
Undefined == 0

\* the parameters of a member have pairwise distinct names (otherwise the
\* emitted class is rejected when it is loaded: a duplicate parameter name is
\* an early error of a function with a rest parameter)
DistinctParams(member) ==
    \A i, j \in 1..Len(member.params) :
        member.params[i].name = member.params[j].name => i = j

\* the value bound to the i-th parameter by a call with the given arguments
BoundValue(actuals, i) == IF i <= Len(actuals) THEN actuals[i] ELSE Undefined

\* `if (p !== undefined) allArgs.unshift(p);` for each named parameter in turn
RECURSIVE CollectNamed(_, _)
CollectNamed(values, allArgs) ==
    IF values = <<>> THEN allArgs
    ELSE CollectNamed(Tail(values),
                      IF Head(values) # Undefined
                      THEN <<Head(values)>> \o allArgs ELSE allArgs)

\* allArgs: [...args], then the named parameters that are not undefined
AllArgs(member, actuals) ==
    LET named == member.body.namedParams
        position(n) == CHOOSE i \in 1..Len(member.params) : member.params[i].name = n
    IN  CollectNamed([k \in 1..Len(named) |-> BoundValue(actuals, position(named[k]))],
                     SubSeq(actuals, Len(member.params), Len(actuals)))

MatchingBranches(branches, n) == {i \in 1..Len(branches) : branches[i].arity = n}

FirstMatchingBranch(branches, n) ==
    CHOOSE i \in MatchingBranches(branches, n) :
        \A j \in MatchingBranches(branches, n) : i <= j

NoCall == [member |-> 0, actuals |-> <<>>, allArgs |-> <<>>, outcome |-> "none",
           target |-> "", selector |-> <<>>, args |-> <<>>, errorName |-> <<>>]

\* what running the implementation with the given arguments does
RunImplementation(cd, idx, actuals) ==
    LET member == cd[idx]
        allArgs == AllArgs(member, actuals)
        branches == member.body.branches
    IN  IF MatchingBranches(branches, Len(allArgs)) # {}
        THEN [member |-> idx, actuals |-> actuals, allArgs |-> allArgs,
              outcome |-> "bridge", target |-> member.body.target,
              selector |-> branches[FirstMatchingBranch(branches, Len(allArgs))].selector,
              args |-> allArgs, errorName |-> <<>>]
        ELSE [member |-> idx, actuals |-> actuals, allArgs |-> allArgs,
              outcome |-> "error", target |-> "", selector |-> <<>>,
              args |-> <<>>, errorName |-> member.body.errorName]

(***************************************************************************)
(* The classes the emission is run on: at most MaxProperties properties    *)
(* and the methods parsed from at most MaxMethods declarations.            *)
(***************************************************************************)
MaxMethods == 2
MaxProperties == 1
MaxArgs == 3

MethodDeclarations == <<
    \* - (void)fo:(int)x;
    <<"-", " ", "(", "v", "o", "i", "d", ")", "f", "o", ":", "(", "i", "n", "t",
      ")", "x", ";">>,
    \* - (void)fo:(int)x ba:(id)y;
    <<"-", " ", "(", "v", "o", "i", "d", ")", "f", "o", ":", "(", "i", "n", "t",
      ")", "x", " ", "b", "a", ":", "(", "i", "d", ")", "y", ";">>,
    \* + (void)fo;
    <<"+", " ", "(", "v", "o", "i", "d", ")", "f", "o", ";">>,
    \* - (void)static_fo;
    <<"-", " ", "(", "v", "o", "i", "d", ")", "s", "t", "a", "t", "i", "c", "_",
      "f", "o", ";">>,
    \* - (void)static_fo:(int)x;
    <<"-", " ", "(", "v", "o", "i", "d", ")", "s", "t", "a", "t", "i", "c", "_",
      "f", "o", ":", "(", "i", "n", "t", ")", "x", ";">>,
    \* - (void)setFo:(int)x;
    <<"-", " ", "(", "v", "o", "i", "d", ")", "s", "e", "t", "F", "o", ":", "(",
      "i", "n", "t", ")", "x", ";">>,
    \* - (void)initFo:(int)x;
    <<"-", " ", "(", "v", "o", "i", "d", ")", "i", "n", "i", "t", "F", "o", ":",
      "(", "i", "n", "t", ")", "x", ";">>,
    \* - (void)initFo:(int)x ba:(id)y;
    <<"-", " ", "(", "v", "o", "i", "d", ")", "i", "n", "i", "t", "F", "o", ":",
      "(", "i", "n", "t", ")", "x", " ", "b", "a", ":", "(", "i", "d", ")", "y",
      ";">>,
    \* - (void)valueOf;
    <<"-", " ", "(", "v", "o", "i", "d", ")", "v", "a", "l", "u", "e", "O", "f",
      ";">> >>

\* the methods of a class: each declaration parsed, in order; a declaration
\* parseMethodSignature throws on is skipped
RECURSIVE ParsedMethods(_)
ParsedMethods(declarations) ==
    IF declarations = <<>> THEN <<>>
    ELSE (IF parseMethodSignature(Head(declarations)).threw THEN <<>>
          ELSE <<parseMethodSignature(Head(declarations))>>)
         \o ParsedMethods(Tail(declarations))

\* a property model; isReadOnly is attributes.includes("readonly")
PropertyModel(name, type, attributes) ==
    [name |-> name, type |-> type,
     isReadOnly |-> \E i \in 1..Len(attributes) : attributes[i] = StrReadonly,
     isNullable |-> FALSE, attributes |-> attributes]

StrNonatomic == <<"n", "o", "n", "a", "t", "o", "m", "i", "c">>

PropertyModels == <<
    \* @property (nonatomic, readonly) int fo;
    PropertyModel(<<"f", "o">>, <<"i", "n", "t">>, <<StrNonatomic, StrReadonly>>),
    \* @property (nonatomic) int fo;
    PropertyModel(<<"f", "o">>, <<"i", "n", "t">>, <<StrNonatomic>>) >>

SeqsUpTo(n, S) == UNION {[1..k -> S] : k \in 0..n}

ClassModels ==
    {[name |-> <<"K">>, superclass |-> <<"N">>,
      properties |-> [i \in 1..Len(ps) |-> PropertyModels[ps[i]]],
      methods |-> ParsedMethods([i \in 1..Len(ds) |-> MethodDeclarations[ds[i]]])] :
        ps \in SeqsUpTo(MaxProperties, 1..Len(PropertyModels)),
        ds \in SeqsUpTo(MaxMethods, 1..Len(MethodDeclarations))}

\* the argument lists of a call: the i-th argument is i or undefined
Actuals == {a \in SeqsUpTo(MaxArgs, 0..MaxArgs) :
                    \A i \in 1..Len(a) : a[i] \in {i, Undefined}}

NoClass == [name |-> <<>>, superclass |-> <<>>, properties |-> <<>>,
            methods |-> <<>>]

(***************************************************************************)
(* Specification SpecSig: parseMethodSignature on one declaration.         *)
(***************************************************************************)
SigInit ==
    /\ decl \in [head : 1..Len(Heads), body : Bodies]
    /\ signature = Render(decl)
    /\ method = Threw
    /\ sigPc = "input"
    /\ cls = NoClass
    /\ classDeclaration = <<>>
    /\ methodGroups = <<>>
    /\ groupIdx = 0
    /\ genPc = "idle"
    /\ call = NoCall
    /\ RestIdle

ParseSignature ==
    /\ sigPc = "input"
    /\ method' = parseMethodSignature(signature)
    /\ sigPc' = IF parseMethodSignature(signature).threw THEN "threw" ELSE "parsed"
    /\ UNCHANGED <<decl, signature>>
    /\ UNCHANGED genVars
    /\ UNCHANGED restVars

SigNext == ParseSignature

SpecSig == SigInit /\ [][SigNext]_vars

(***************************************************************************)
(* Specification SpecGen: the emission of one class by main, then calls    *)
(* of the overload implementations it emitted.                             *)
(***************************************************************************)
GenInit ==
    /\ decl = [head |-> 1, body |-> <<>>]
    /\ signature = <<>>
    /\ method = Threw
    /\ sigPc = "idle"
    /\ cls \in ClassModels
    /\ classDeclaration = <<>>
    /\ methodGroups = <<>>
    /\ groupIdx = 0
    /\ genPc = "properties"
    /\ call = NoCall
    /\ RestIdle

\* the class is created; its properties and its constructor are emitted
EmitProperties ==
    /\ genPc = "properties"
    /\ classDeclaration' = ClassWithProperties(cls)
    /\ genPc' = "group"
    /\ UNCHANGED <<cls, methodGroups, groupIdx, call>>
    /\ UNCHANGED sigVars
    /\ UNCHANGED restVars

\* the methods are grouped; a TypeError in the loop ends main
GroupMethods ==
    /\ genPc = "group"
    /\ LET r == GroupLoop(cls.methods, <<>>)
       IN  /\ methodGroups' = r.groups
           /\ genPc' = IF r.threw THEN "aborted"
                       ELSE IF r.groups = <<>> THEN "done" ELSE "methods"
    /\ groupIdx' = 1
    /\ UNCHANGED <<cls, classDeclaration, call>>
    /\ UNCHANGED sigVars
    /\ UNCHANGED restVars

\* one group is emitted
EmitMethodGroup ==
    /\ genPc = "methods"
    /\ groupIdx <= Len(methodGroups)
    /\ classDeclaration' = EmitGroup(classDeclaration, methodGroups[groupIdx])
    /\ groupIdx' = groupIdx + 1
    /\ genPc' = IF groupIdx = Len(methodGroups) THEN "done" ELSE "methods"
    /\ UNCHANGED <<cls, methodGroups, call>>
    /\ UNCHANGED sigVars
    /\ UNCHANGED restVars

\* the emitted class is used: an overload implementation is called
CallOverload ==
    /\ genPc = "done"
    /\ call = NoCall
    /\ \E idx \in 1..Len(classDeclaration) : \E actuals \in Actuals :
          /\ classDeclaration[idx].body.form = "dispatch"
          /\ DistinctParams(classDeclaration[idx])
          /\ call' = RunImplementation(classDeclaration, idx, actuals)
    /\ UNCHANGED <<cls, classDeclaration, methodGroups, groupIdx, genPc>>
    /\ UNCHANGED sigVars
    /\ UNCHANGED restVars

\* the call is over: msgSend returned, or the error left the method
ReturnFromCall ==
    /\ call # NoCall
    /\ call' = NoCall
    /\ UNCHANGED <<cls, classDeclaration, methodGroups, groupIdx, genPc>>
    /\ UNCHANGED sigVars
    /\ UNCHANGED restVars

GenNext ==
    \/ EmitProperties
    \/ GroupMethods
    \/ EmitMethodGroup
    \/ CallOverload
    \/ ReturnFromCall

SpecGen == GenInit /\ [][GenNext]_vars

(***************************************************************************)
(* Claims about parseMethodSignature, checked under SpecSig.               *)
(***************************************************************************)
\* the body of a declaration without one trailing semicolon piece
BodyNoSemicolon(d) ==
    IF Len(d.body) > 0 /\ d.body[Len(d.body)] = SemicolonPiece
    THEN SubSeq(d.body, 1, Len(d.body) - 1) ELSE d.body

\* a sigil, a return type of word characters, then either one bare identifier
\* or one or more label:(type)name groups
HasLabels(d) ==
    /\ d.head \in GoodHeads
    /\ Len(BodyNoSemicolon(d)) >= 1
    /\ \A i \in 1..Len(BodyNoSemicolon(d)) : BodyNoSemicolon(d)[i] \in ParamPieces

HasNoLabel(d) == d.head \in GoodHeads /\ BodyNoSemicolon(d) = <<BarePiece>>

LabelsSelector(d) ==
    Concat([i \in 1..Len(BodyNoSemicolon(d)) |->
                PieceLabel(BodyNoSemicolon(d)[i]) \o StrColon])

LabelsParamNames(d) ==
    [i \in 1..Len(BodyNoSemicolon(d)) |-> PieceParamName(BodyNoSemicolon(d)[i])]

HeadSigil(d) == Heads[d.head][RunEnd(Heads[d.head], 1, SpaceChars)]

\* C1 (as claimed): every method model parseMethodSignature returns has as many
\* ':' characters in its selector name as it has parameters.
C1_ColonsEqualParameters ==
    sigPc = "parsed" => CountChar(method.name, ":") = Len(method.parameters)

OverloadGroups ==
    {g \in 1..Len(methodGroups) :
        Len(methodGroups[g].methods) > 1
        /\ ~isSetterMethod(methodGroups[g].methods[1])}

\* the members of the emitted class that bear the name and static flag under
\* which group g is emitted, without a body (signatures) or with one
EmittedFor(g, hasBody) ==
    SelectSeq(classDeclaration,
              LAMBDA mem : /\ mem.kind = "method"
                           /\ mem.hasBody = hasBody
                           /\ mem.name = KeyBaseMethodName(methodGroups[g].key)
                           /\ mem.isStatic = KeyIsClassMethod(methodGroups[g].key))

\* the group whose implementation the last call ran
CalledGroup ==
    methodGroups[CHOOSE g \in OverloadGroups :
        /\ classDeclaration[call.member].name = KeyBaseMethodName(methodGroups[g].key)
        /\ classDeclaration[call.member].isStatic = KeyIsClassMethod(methodGroups[g].key)]

\* the members of the called group whose parameter count is n
MembersOfArity(n) ==
    {i \in 1..Len(CalledGroup.methods) : Len(CalledGroup.methods[i].parameters) = n}

FirstMemberOfArity(n) ==
    CHOOSE i \in MembersOfArity(n) : \A j \in MembersOfArity(n) : i <= j

\* C3: a call whose effective argument count is n is forwarded with the exact
\* selector of the first member, in declaration order, that has n parameters.
C3_FirstMatchingArity ==
    (call.outcome # "none" /\ MembersOfArity(Len(call.allArgs)) # {}) =>
        /\ call.outcome = "bridge"
        /\ call.selector =
               CalledGroup.methods[FirstMemberOfArity(Len(call.allArgs))].name

C3_Witness ==
    /\ call.outcome = "bridge"
    /\ Len(call.allArgs) = 2
    /\ FirstMemberOfArity(2) = 2
    /\ call.selector = CalledGroup.methods[2].name
    /\ CalledGroup.methods[1].name # CalledGroup.methods[2].name

\* the caller's arguments without the named ones that are undefined
CallerOrder(actuals, named) ==
    SelectSeq(SubSeq(actuals, 1, IF named < Len(actuals) THEN named ELSE Len(actuals)),
              LAMBDA v : v # Undefined)
    \o SubSeq(actuals, named + 1, Len(actuals))

\* C4 (as claimed): the arguments forwarded to the bridge are the caller's, in
\* the order supplied: the named parameters in declared order, then the rest.
C4_ArgumentsInCallerOrder ==
    call.outcome = "bridge" =>
        call.args = CallerOrder(call.actuals,
                                Len(classDeclaration[call.member].params) - 1)

\* C5 (as claimed): when no member has as many parameters as the effective
\* argument count, nothing is sent and the error names the base method name
\* of the group (the name of its members before the first colon).
C5_ErrorNamesBaseMethod ==
    (call.outcome # "none" /\ MembersOfArity(Len(call.allArgs)) = {}) =>
        /\ call.outcome = "error"
        /\ \A i \in 1..Len(CalledGroup.methods) :
              call.errorName = BeforeFirstColon(CalledGroup.methods[i].name)

\* the declared methods of the class, in declaration order, that satisfy P
DeclaredNames(P(_)) ==
    LET sel == SelectSeq(cls.methods, P)
    IN  [i \in 1..Len(sel) |-> sel[i].name]

\* the selectors an emitted method or accessor can send
SelectorsOf(mem) ==
    {mem.body.selector} \cup
    {mem.body.branches[b].selector : b \in 1..Len(mem.body.branches)}

StrInitFoX == <<"i", "n", "i", "t", "F", "o", ":">>

StrInitFoXBaY == StrInitFoX \o <<"b", "a", ":">>

StrFoX == <<"f", "o", ":">>

StrFoXBaY == StrFoX \o <<"b", "a", ":">>

\* the instance methods of the class whose name before the first colon is fo
\* are fo: and then fo:ba:
DeclaresFoThenFoBa ==
    DeclaredNames(LAMBDA m : ~m.isClassMethod
                             /\ BeforeFirstColon(m.name) = BeforeFirstColon(StrFoX))
        = <<StrFoX, StrFoXBaY>>

AllDefined(actuals) == \A i \in 1..Len(actuals) : actuals[i] # Undefined

CallsFo ==
    /\ call.outcome # "none"
    /\ classDeclaration[call.member].name = BeforeFirstColon(StrFoX)
    /\ ~classDeclaration[call.member].isStatic
    /\ AllDefined(call.actuals)

C7_GroupedByStaticAndBaseName ==
    genPc \in {"methods", "done"} =>
        /\ \A g \in 1..Len(methodGroups), h \in 1..Len(methodGroups) :
             \A i \in 1..Len(methodGroups[g].methods) :
               \A j \in 1..Len(methodGroups[h].methods) :
                 LET a == methodGroups[g].methods[i]
                     b == methodGroups[h].methods[j]
                 IN  (g = h) <=> /\ a.isClassMethod = b.isClassMethod
                                 /\ BeforeFirstColon(a.name) = BeforeFirstColon(b.name)
        /\ \A g \in 1..Len(methodGroups) :
             \A i \in 1..Len(methodGroups[g].methods) :
                 /\ KeyIsClassMethod(methodGroups[g].key)
                        = methodGroups[g].methods[i].isClassMethod
                 /\ KeyBaseMethodName(methodGroups[g].key)
                        = BeforeFirstColon(methodGroups[g].methods[i].name)

ParamNames(params) == [i \in 1..Len(params) |-> params[i].name]

\* C8 (as claimed): an overloaded group gets one body-less signature per
\* member, in member order, with the member's parameters.
C8_SignaturePerMember ==
    genPc = "done" =>
        \A g \in OverloadGroups :
            /\ Len(EmittedFor(g, FALSE)) = Len(methodGroups[g].methods)
            /\ \A i \in 1..Len(methodGroups[g].methods) :
                   i <= Len(EmittedFor(g, FALSE)) =>
                       ParamNames(EmittedFor(g, FALSE)[i].params)
                           = ParamNames(methodGroups[g].methods[i].parameters)

\* C9 (as claimed): an overloaded group gets exactly one implementation with a
\* body; every parameter name of a member is a parameter of it, no name twice,
\* each optional, and its last parameter is the rest parameter args.
C9_ImplementationParameters ==
    genPc = "done" =>
        \A g \in OverloadGroups :
            /\ Len(EmittedFor(g, TRUE)) = 1
            /\ LET ps == EmittedFor(g, TRUE)[1].params
                   named == SubSeq(ps, 1, Len(ps) - 1)
               IN  /\ Len(ps) >= 1
                   /\ ps[Len(ps)].isRestParameter /\ ps[Len(ps)].name = StrArgs
                   /\ \A i \in 1..Len(named) :
                          named[i].hasQuestionToken /\ ~named[i].isRestParameter
                   /\ \A i \in 1..Len(named), j \in 1..Len(named) :
                          named[i].name = named[j].name => i = j
                   /\ \A i \in 1..Len(methodGroups[g].methods) :
                        \A k \in 1..Len(methodGroups[g].methods[i].parameters) :
                          \E n \in 1..Len(named) :
                            named[n].name = methodGroups[g].methods[i].parameters[k].name

IsReadOnly(prop) == \E a \in 1..Len(prop.attributes) : prop.attributes[a] = StrReadonly

ReadOnlyProperties == {i \in 1..Len(cls.properties) : IsReadOnly(cls.properties[i])}

\* C10 (as claimed): the emitted class has no set accessor with the name of a
\* property that has readonly among its attributes.
C10_NoSetterForReadonly ==
    genPc # "properties" =>
        \A i \in ReadOnlyProperties :
            ~getSetAccessor(classDeclaration, cls.properties[i].name)

\* the groups already emitted whose first method is setter-shaped and derives name
SetterGroupsFor(name) ==
    {g \in 1..Len(methodGroups) :
        /\ genPc = "done" \/ g < groupIdx
        /\ isSetterMethod(methodGroups[g].methods[1])
        /\ SetterPropertyName(methodGroups[g].methods[1]) = name}

\* C10: the property emission adds no set accessor for a readonly property: a
\* set accessor with the name of a readonly property exists only if the class
\* also has a writable property of that name or, once the method groups are
\* emitted, a group whose first method is setter-shaped and derives that name.
C10_ReadonlySetterOrigin ==
    genPc # "properties" =>
        \A i \in ReadOnlyProperties :
            getSetAccessor(classDeclaration, cls.properties[i].name) =>
                \/ \E j \in 1..Len(cls.properties) :
                       /\ ~IsReadOnly(cls.properties[j])
                       /\ cls.properties[j].name = cls.properties[i].name
                \/ /\ genPc \in {"methods", "done"}
                   /\ SetterGroupsFor(cls.properties[i].name) # {}

C10_Witness ==
    /\ genPc = "done"
    /\ ReadOnlyProperties # {}
    /\ cls.methods # <<>>
    /\ \A i \in ReadOnlyProperties :
           /\ \E k \in 1..Len(classDeclaration) :
                  /\ classDeclaration[k].kind = "get"
                  /\ classDeclaration[k].name = cls.properties[i].name
           /\ ~getSetAccessor(classDeclaration, cls.properties[i].name)


(***************************************************************************)
(* Specification SpecSetters: the emission run on classes made of          *)
(* setter-shaped methods and of properties that share one name.            *)
(***************************************************************************)
MaxSetterMethods == 2
MaxSetterProperties == 2

SetterMethodDeclarations == <<
    \* - (void)setFo:(int)x;
    MethodDeclarations[6],
    \* + (void)setFo:(int)x;
    <<"+">> \o Tail(MethodDeclarations[6]),
    \* + (void)fo;
    MethodDeclarations[3],
    \* - (void)static_fo;
    MethodDeclarations[4],
    \* - (void)setFo:(int)x ba:(id)y;
    <<"-", " ", "(", "v", "o", "i", "d", ")", "s", "e", "t", "F", "o", ":", "(",
      "i", "n", "t", ")", "x", " ", "b", "a", ":", "(", "i", "d", ")", "y", ";">> >>

SetterPropertyModels == <<
    \* @property (nonatomic) int fo;
    PropertyModels[2],
    \* @property (class) int fo;
    PropertyModel(<<"f", "o">>, <<"i", "n", "t">>, <<<<"c", "l", "a", "s", "s">>>>),
    \* @property (nonatomic, readonly) int fo;
    PropertyModels[1] >>

SetterClassModels ==
    {[name |-> <<"K">>, superclass |-> <<"N">>,
      properties |-> [i \in 1..Len(ps) |-> SetterPropertyModels[ps[i]]],
      methods |-> ParsedMethods([i \in 1..Len(ds) |-> SetterMethodDeclarations[ds[i]]])] :
        ps \in SeqsUpTo(MaxSetterProperties, 1..Len(SetterPropertyModels)),
        ds \in SeqsUpTo(MaxSetterMethods, 1..Len(SetterMethodDeclarations))}

SetterInit ==
    /\ decl = [head |-> 1, body |-> <<>>]
    /\ signature = <<>>
    /\ method = Threw
    /\ sigPc = "idle"
    /\ cls \in SetterClassModels
    /\ classDeclaration = <<>>
    /\ methodGroups = <<>>
    /\ groupIdx = 0
    /\ genPc = "properties"
    /\ call = NoCall
    /\ RestIdle

SpecSetters == SetterInit /\ [][GenNext]_vars

\* the positions of the set accessors of the emitted class
SetAccessors == {k \in 1..Len(classDeclaration) : classDeclaration[k].kind = "set"}

\* C11 (as claimed): once a class is emitted, no two of its set accessors have
\* the same name.
C11_OneSetAccessorPerName ==
    genPc = "done" =>
        \A k \in SetAccessors, l \in SetAccessors :
            classDeclaration[k].name = classDeclaration[l].name => k = l

\* C14 (as claimed): once the input is read, no failure on one declaration or
\* one class ends the run: the emission of a class is never left through the
\* outer catch of main, whatever the names of its methods.
C14_RunNeverAborted == genPc # "aborted"


(***************************************************************************)
(* parsePropertyDeclaration                                                *)
(***************************************************************************)
StrProperty == <<"@", "p", "r", "o", "p", "e", "r", "t", "y">>

\* `\([^)]+\)` at position g: the position just past it, 0 when it does not match
ParenGroupEnd(s, g) ==
    LET h == RunEnd(s, g + 1, NotRParenChars)
    IN  IF g <= Len(s) /\ s[g] = "(" /\ h > g + 1 /\ h <= Len(s) THEN h + 1 ELSE 0

\* the greedy end of `@property\s*(?:\([^)]+\))?\s*` for an occurrence at q
PropertyPrefixEnd(s, q) ==
    LET w == RunEnd(s, q + Len(StrProperty), SpaceChars)
    IN  IF ParenGroupEnd(s, w) = 0 THEN w
        ELSE RunEnd(s, ParenGroupEnd(s, w), SpaceChars)

\* /(@property\s*(?:\([^)]+\))?\s*[^;]+?)(?:\s+API_|\s*$)/ tried at position p:
\* the lazy [^;]+? starts where the greediest prefix that leaves a match ends,
\* and stops at the first position where the tail matches
BasicPropertyMatchAt(s, p) ==
    IF ~OccursAt(s, StrProperty, p) THEN NoMatch
    ELSE LET a == p + Len(StrProperty)
             w == RunEnd(s, a, SpaceChars)
             starts == (a..w) \cup
                       (IF ParenGroupEnd(s, w) = 0 THEN {}
                        ELSE ParenGroupEnd(s, w)..PropertyPrefixEnd(s, p))
             tailAt(e) == LET r == RunEnd(s, e, SpaceChars)
                          IN  r = Len(s) + 1
                              \/ (r > e /\ OccursAt(s, <<"A", "P", "I", "_">>, r))
             ends(st) == {e \in (st + 1)..(Len(s) + 1) :
                             /\ \A k \in st..(e - 1) : s[k] # ";"
                             /\ tailAt(e)}
             good == {st \in starts : ends(st) # {}}
         IN  IF good = {} THEN NoMatch
             ELSE LET st == CHOOSE x \in good : \A y \in good : y <= x
                      e == CHOOSE x \in ends(st) : \A y \in ends(st) : x <= y
                  IN  [NoMatch EXCEPT !.ok = TRUE, !.end = e, !.g1 = Sub(s, p, e)]

\* String.prototype.match without the g flag: the leftmost match
RECURSIVE FirstBasicPropertyMatch(_, _)
FirstBasicPropertyMatch(s, i) ==
    IF i > Len(s) THEN NoMatch
    ELSE IF OccursAt(s, StrProperty, i) /\ BasicPropertyMatchAt(s, i).ok
    THEN BasicPropertyMatchAt(s, i)
    ELSE FirstBasicPropertyMatch(s, i + 1)

\* text.split(",").map(attr => attr.trim())
RECURSIVE SplitTrim(_)
SplitTrim(text) ==
    IF ~Includes(text, <<",">>) THEN <<Trim(text)>>
    ELSE <<Trim(Sub(text, 1, IndexOf(text, <<",">>)))>>
         \o SplitTrim(Sub(text, IndexOf(text, <<",">>) + 1, Len(text) + 1))

\* the attributes of /@property\s*\(([^)]+)\)/, [] when it does not match
PropertyAttributes(basicProperty) ==
    LET matches == {q \in 1..Len(basicProperty) :
                       /\ OccursAt(basicProperty, StrProperty, q)
                       /\ ParenGroupEnd(basicProperty,
                              RunEnd(basicProperty, q + Len(StrProperty), SpaceChars)) # 0}
        q == CHOOSE x \in matches : \A y \in matches : x <= y
        g == RunEnd(basicProperty, q + Len(StrProperty), SpaceChars)
    IN  IF matches = {} THEN <<>>
        ELSE SplitTrim(Sub(basicProperty, g + 1, ParenGroupEnd(basicProperty, g) - 1))

\* the property returned by the catch block
MinimalProperty ==
    [name |-> <<>>, type |-> StrId, isReadOnly |-> FALSE, isNullable |-> FALSE,
     attributes |-> <<>>]

\* the value of an expression that is evaluated once and used several times
ValueOf(S) == CHOOSE v \in S : TRUE

\* the try block from typeAndName on: threw, or the property it returns
PropertyOfTypeAndName(attributes, typeAndName) ==
    LET nameStart == LastNotIn(typeAndName, Len(typeAndName), WordChars) + 1
        typeWithAsterisk == Trim(Sub(typeAndName, 1, nameStart))
    IN  IF nameStart > Len(typeAndName)
        THEN [threw |-> TRUE,
              value |-> [MinimalProperty EXCEPT !.attributes = attributes]]
        ELSE [threw |-> FALSE,
              value |->
                [name |-> Sub(typeAndName, nameStart, Len(typeAndName) + 1),
                 type |-> Trim(ReplaceFirst(ReplaceFirst(ReplaceFirst(
                              typeWithAsterisk, StrNullable, <<>>),
                              StrUnderscoreNullable, <<>>), StrStar, <<>>)),
                 isReadOnly |-> \E i \in 1..Len(attributes) :
                                    attributes[i] = StrReadonly,
                 isNullable |-> \/ Includes(typeWithAsterisk, StrStar)
                                \/ Includes(typeWithAsterisk, StrNullable)
                                \/ Includes(typeWithAsterisk, StrUnderscoreNullable),
                 attributes |-> attributes]]

\* the try block from basicProperty on
PropertyOfBasic(basicProperty) ==
    LET at == IndexOf(basicProperty, StrProperty)
    IN  ValueOf({PropertyOfTypeAndName(attributes, typeAndName) :
            attributes \in {PropertyAttributes(basicProperty)},
            typeAndName \in {Trim(Sub(basicProperty, 1, at)
                                  \o Sub(basicProperty,
                                         PropertyPrefixEnd(basicProperty, at),
                                         Len(basicProperty) + 1))}})

\* the try block: threw, or the property it returns
PropertyBody(propertyDeclaration) ==
    LET trimmed == Trim(propertyDeclaration)
        text == IF EndsWith(trimmed, StrSemicolon)
                THEN Sub(trimmed, 1, Len(trimmed)) ELSE trimmed
    IN  ValueOf({IF ~basicPropertyMatch.ok
                 THEN [threw |-> TRUE, value |-> MinimalProperty]
                 ELSE PropertyOfBasic(Trim(basicPropertyMatch.g1)) :
            basicPropertyMatch \in {FirstBasicPropertyMatch(text, 1)}})

\* without the catch block: what the try block had computed is returned
parsePropertyDeclarationMutant(propertyDeclaration) ==
    PropertyBody(propertyDeclaration).value

parsePropertyDeclaration(propertyDeclaration) ==
    ValueOf({IF body.threw THEN MinimalProperty ELSE body.value :
                body \in {PropertyBody(propertyDeclaration)}})


(***************************************************************************)
(* convertTypeToTypeScript, and the property line of the interface text    *)
(* of convertClassToTypeScript.                                            *)
(***************************************************************************)
\* the typeMap of convertTypeToTypeScript, as <<key, value>> pairs
typeMap == <<
    <<<<"N", "S", "S", "t", "r", "i", "n", "g">>,
      <<"s", "t", "r", "i", "n", "g">>>>,
    <<<<"N", "S", "N", "u", "m", "b", "e", "r">>,
      <<"n", "u", "m", "b", "e", "r">>>>,
    <<<<"N", "S", "I", "n", "t", "e", "g", "e", "r">>,
      <<"n", "u", "m", "b", "e", "r">>>>,
    <<<<"N", "S", "U", "I", "n", "t", "e", "g", "e", "r">>,
      <<"n", "u", "m", "b", "e", "r">>>>,
    <<<<"B", "O", "O", "L">>,
      <<"b", "o", "o", "l", "e", "a", "n">>>>,
    <<<<"C", "G", "F", "l", "o", "a", "t">>,
      <<"n", "u", "m", "b", "e", "r">>>>,
    <<<<"d", "o", "u", "b", "l", "e">>,
      <<"n", "u", "m", "b", "e", "r">>>>,
    <<<<"f", "l", "o", "a", "t">>,
      <<"n", "u", "m", "b", "e", "r">>>>,
    <<<<"i", "n", "t">>,
      <<"n", "u", "m", "b", "e", "r">>>>,
    <<<<"l", "o", "n", "g">>,
      <<"n", "u", "m", "b", "e", "r">>>>,
    <<<<"c", "h", "a", "r">>,
      <<"s", "t", "r", "i", "n", "g">>>>,
    <<<<"i", "d">>,
      <<"a", "n", "y">>>>,
    <<<<"i", "n", "s", "t", "a", "n", "c", "e", "t", "y", "p", "e">>,
      <<"a", "n", "y">>>>,
    <<<<"v", "o", "i", "d">>,
      <<"v", "o", "i", "d">>>>,
    <<<<"N", "S", "A", "r", "r", "a", "y">>,
      <<"A", "r", "r", "a", "y", "<", "a", "n", "y", ">">>>>,
    <<<<"N", "S", "D", "i", "c", "t", "i", "o", "n", "a", "r", "y">>,
      <<"R", "e", "c", "o", "r", "d", "<", "s", "t", "r", "i", "n", "g", ",", " ", "a", "n", "y", ">">>>>,
    <<<<"N", "S", "S", "e", "t">>,
      <<"S", "e", "t", "<", "a", "n", "y", ">">>>>,
    <<<<"N", "S", "I", "m", "a", "g", "e">>,
      <<"a", "n", "y">>>>,
    <<<<"S", "E", "L">>,
      <<"s", "t", "r", "i", "n", "g">>>> >>

convertTypeToTypeScript(objcType, isNullable) ==
    (IF ReadLiteral(typeMap, objcType) # <<>> THEN ReadLiteral(typeMap, objcType)
     ELSE objcType)
    \o (IF isNullable THEN StrNullSuffix ELSE <<>>)

\* `${tsType}${nullableSuffix}` of the property line of the interface text
InterfacePropertyType(property) ==
    LET tsType == convertTypeToTypeScript(property.type, property.isNullable)
    IN  tsType \o (IF property.isNullable /\ ~Includes(tsType, <<"|", " ", "n", "u", "l", "l">>)
                   THEN StrNullSuffix ELSE <<>>)

(***************************************************************************)
(* Specification SpecProp: parsePropertyDeclaration on one declaration,    *)
(* then the type texts emitted for the property it returned.               *)
(***************************************************************************)
PropertyAttributeTexts == <<
    \* ``
    <<>>,
    \* ` `
    <<" ">>,
    \* ` (nonatomic) `
    <<" ", "(", "n", "o", "n", "a", "t", "o", "m", "i", "c", ")", " ">>,
    \* ` (nonatomic, readonly) `
    <<" ", "(", "n", "o", "n", "a", "t", "o", "m", "i", "c", ",", " ", "r",
    "e", "a", "d", "o", "n", "l", "y", ")", " ">>,
    \* `(nullable) `
    <<"(", "n", "u", "l", "l", "a", "b", "l", "e", ")", " ">>,
    \* ` (readonly,nullable) `
    <<" ", "(", "r", "e", "a", "d", "o", "n", "l", "y", ",", "n", "u", "l",
    "l", "a", "b", "l", "e", ")", " ">>,
    \* ` () `
    <<" ", "(", ")", " ">> >>

PropertyTypeTexts == <<
    \* ``
    <<>>,
    \* `int `
    <<"i", "n", "t", " ">>,
    \* `id `
    <<"i", "d", " ">>,
    \* `NSString *`
    <<"N", "S", "S", "t", "r", "i", "n", "g", " ", "*">>,
    \* `nullable NSString *`
    <<"n", "u", "l", "l", "a", "b", "l", "e", " ", "N", "S", "S", "t", "r",
    "i", "n", "g", " ", "*">>,
    \* `NSString * _Nullable `
    <<"N", "S", "S", "t", "r", "i", "n", "g", " ", "*", " ", "_", "N", "u",
    "l", "l", "a", "b", "l", "e", " ">>,
    \* `void (^`
    <<"v", "o", "i", "d", " ", "(", "^">> >>

PropertyNameTexts == <<
    \* ``
    <<>>,
    \* `fo`
    <<"f", "o">>,
    \* `fo)(void)`
    <<"f", "o", ")", "(", "v", "o", "i", "d", ")">> >>

PropertyTailTexts == <<
    \* ``
    <<>>,
    \* `;`
    <<";">>,
    \* ` ;`
    <<" ", ";">>,
    \* ` API_AVAILABLE(m(1));`
    <<" ", "A", "P", "I", "_", "A", "V", "A", "I", "L", "A", "B", "L", "E",
    "(", "m", "(", "1", ")", ")", ";">>,
    \* `;;`
    <<";", ";">>,
    \* `; @property int ba`
    <<";", " ", "@", "p", "r", "o", "p", "e", "r", "t", "y", " ", "i", "n",
    "t", " ", "b", "a">> >>

PropertyInputs ==
    [attributes : 1..Len(PropertyAttributeTexts), type : 1..Len(PropertyTypeTexts),
     name : 1..Len(PropertyNameTexts), tail : 1..Len(PropertyTailTexts)]

PropertyText(in) ==
    StrProperty \o PropertyAttributeTexts[in.attributes] \o PropertyTypeTexts[in.type]
    \o PropertyNameTexts[in.name] \o PropertyTailTexts[in.tail]

\* a type text that is not emitted yet
NotEmitted == <<"-">>

PropInit ==
    /\ decl = [head |-> 1, body |-> <<>>]
    /\ signature = <<>>
    /\ method = Threw
    /\ sigPc = "idle"
    /\ cls = NoClass
    /\ classDeclaration = <<>>
    /\ methodGroups = <<>>
    /\ groupIdx = 0
    /\ genPc = "idle"
    /\ call = NoCall
    /\ scan = Idle /\ convRun = Idle /\ docRun = Idle
    /\ FilesIdle
    /\ \E in \in PropertyInputs :
          propRun = [pc |-> "input", in |-> in, text |-> PropertyText(in),
                     threw |-> FALSE, property |-> MinimalProperty,
                     interfaceType |-> NotEmitted, accessors |-> <<>>,
                     accessorsEmitted |-> FALSE]

ParseProperty ==
    /\ propRun.pc = "input"
    /\ propRun' = [propRun EXCEPT
                     !.pc = "parsed",
                     !.threw = PropertyBody(propRun.text).threw,
                     !.property = parsePropertyDeclaration(propRun.text)]
    /\ UNCHANGED <<sigVars, genVars, fileVars, scan, convRun, docRun>>

\* convertClassToTypeScript writes the line of the property
EmitInterfaceProperty ==
    /\ propRun.pc = "parsed"
    /\ propRun.interfaceType = NotEmitted
    /\ propRun' = [propRun EXCEPT
                     !.interfaceType = InterfacePropertyType(propRun.property)]
    /\ UNCHANGED <<sigVars, genVars, fileVars, scan, convRun, docRun>>

\* main, class mode, adds the accessors of the property
EmitPropertyAccessors ==
    /\ propRun.pc = "parsed"
    /\ ~propRun.accessorsEmitted
    /\ propRun' = [propRun EXCEPT
                     !.accessors = EmitProperty(<<>>, propRun.property),
                     !.accessorsEmitted = TRUE]
    /\ UNCHANGED <<sigVars, genVars, fileVars, scan, convRun, docRun>>

PropNext == ParseProperty \/ EmitInterfaceProperty \/ EmitPropertyAccessors

SpecProp == PropInit /\ [][PropNext]_vars

(***************************************************************************)
(* parseDocumentation.                                                     *)
(***************************************************************************)
Newline == "\n"
StrDocOpen == <<"/", "*", "!">>
StrDocClose == <<"*", "/">>
StrAtParam == <<"@", "p", "a", "r", "a", "m">>
StrAtReturn == <<"@", "r", "e", "t", "u", "r", "n">>
\* [^@]
NotAtChars == Chars \ {"@"}

\* the length of the match of /\/\*!|\*\/|^\s*\*\s*/m at position i, 0 when
\* there is none; ^ is the start of the text or of a line
CommentMarkerAt(s, i) ==
    IF OccursAt(s, StrDocOpen, i) THEN Len(StrDocOpen)
    ELSE IF OccursAt(s, StrDocClose, i) THEN Len(StrDocClose)
    ELSE IF /\ (i = 1 \/ s[i - 1] = Newline)
            /\ OccursAt(s, StrStar, RunEnd(s, i, SpaceChars))
    THEN RunEnd(s, RunEnd(s, i, SpaceChars) + 1, SpaceChars) - i
    ELSE 0

\* docComment.replace(/\/\*!|\*\/|^\s*\*\s*/gm, ""): what is left from
\* position i on
RECURSIVE RemoveCommentMarkers(_, _)
RemoveCommentMarkers(s, i) ==
    IF i > Len(s) THEN <<>>
    ELSE LET j == CHOOSE x \in i..(Len(s) + 1) :
                     /\ x = Len(s) + 1 \/ CommentMarkerAt(s, x) > 0
                     /\ \A y \in i..(x - 1) : CommentMarkerAt(s, y) = 0
         IN  Sub(s, i, j)
             \o (IF j > Len(s) THEN <<>>
                 ELSE RemoveCommentMarkers(s, j + CommentMarkerAt(s, j)))

\* split(/\r?\n/).map(line => line.trim()).filter(line => line.length > 0)
RECURSIVE TrimmedLines(_)
TrimmedLines(text) ==
    LET at == IndexOf(text, <<Newline>>)
        first == Trim(IF at = 0 THEN text ELSE Sub(text, 1, at))
    IN  (IF first = <<>> THEN <<>> ELSE <<first>>)
        \o (IF at = 0 THEN <<>> ELSE TrimmedLines(Sub(text, at + 1, Len(text) + 1)))

\* the lines of the cleaned comment
DocLines(docComment) == TrimmedLines(Trim(RemoveCommentMarkers(docComment, 1)))

\* paramDocs[name] = doc on a record that keeps the order its keys were added in
SetDoc(docs, name, doc) ==
    IF \E k \in 1..Len(docs) : docs[k][1] = name
    THEN [k \in 1..Len(docs) |-> IF docs[k][1] = name THEN <<name, doc>> ELSE docs[k]]
    ELSE Append(docs, <<name, doc>>)

\* the matches of /@param\s+(\w+)\s+([^@]+)/g from position i on, stored in docs
RECURSIVE ParamTagMatches(_, _, _)
ParamTagMatches(line, i, docs) ==
    LET p == IndexOfFrom(line, StrAtParam, i)
    IN  IF p = 0 THEN docs
        ELSE LET w == RunEnd(line, p + Len(StrAtParam), SpaceChars)
                 n == RunEnd(line, w, WordChars)
                 e == RunEnd(line, n, NotAtChars)
             IN  IF /\ w > p + Len(StrAtParam)
                    /\ n > w
                    /\ RunEnd(line, n, SpaceChars) > n
                    /\ e >= n + 2
                 THEN ParamTagMatches(line, e,
                          SetDoc(docs, Sub(line, w, n), Trim(Sub(line, n, e))))
                 ELSE ParamTagMatches(line, p + 1, docs)

\* the first match of /@return\s+([^@]+)(?=@|$)/ from position i on, trimmed;
\* "" when there is none
RECURSIVE ReturnTagMatch(_, _)
ReturnTagMatch(line, i) ==
    LET p == IndexOfFrom(line, StrAtReturn, i)
        a == p + Len(StrAtReturn)
    IN  IF p = 0 THEN <<>>
        ELSE IF RunEnd(line, a, SpaceChars) > a /\ RunEnd(line, a, NotAtChars) >= a + 2
        THEN Trim(Sub(line, a, RunEnd(line, a, NotAtChars)))
        ELSE ReturnTagMatch(line, p + 1)

\* the locals of parseDocumentation before the lines are processed
DocStart == [mainDocLines |-> <<>>, paramDocs |-> <<>>, returnDoc |-> <<>>,
             currentParam |-> <<>>, currentParamDoc |-> <<>>]

\* lines.length === 1 && lines[0].includes("@param")
IsSingleLineDoc(lines) == Len(lines) = 1 /\ Includes(lines[1], StrAtParam)

\* the single-line branch
SingleLineDoc(singleLine) ==
    LET mainDoc == Trim(Sub(singleLine, 1, IndexOf(singleLine, StrAtParam)))
    IN  [DocStart EXCEPT
           !.mainDocLines = IF mainDoc = <<>> THEN <<>> ELSE <<mainDoc>>,
           !.paramDocs = ParamTagMatches(singleLine, 1, <<>>),
           !.returnDoc = ReturnTagMatch(singleLine, 1)]

\* the first match of /@param\s+(\w+)\s+(.*)/ from position i on: <<name, text>>,
\* <<>> when there is none
RECURSIVE ParamLineMatch(_, _)
ParamLineMatch(line, i) ==
    LET p == IndexOfFrom(line, StrAtParam, i)
    IN  IF p = 0 THEN <<>>
        ELSE LET w == RunEnd(line, p + Len(StrAtParam), SpaceChars)
                 n == RunEnd(line, w, WordChars)
             IN  IF w > p + Len(StrAtParam) /\ n > w /\ RunEnd(line, n, SpaceChars) > n
                 THEN <<Sub(line, w, n),
                        Sub(line, RunEnd(line, n, SpaceChars), Len(line) + 1)>>
                 ELSE ParamLineMatch(line, p + 1)

\* `if (currentParam) paramDocs[currentParam] = currentParamDoc.trim()`
SavedParamDocs(d) ==
    IF d.currentParam = <<>> THEN d.paramDocs
    ELSE SetDoc(d.paramDocs, d.currentParam, Trim(d.currentParamDoc))

\* one iteration of the loop over the lines of the multi-line branch
MultiLineDoc(d, line) ==
    IF StartsWith(line, StrAtParam)
    THEN LET paramMatch == ParamLineMatch(line, 1)
         IN  [d EXCEPT
                !.paramDocs = SavedParamDocs(d),
                !.currentParam = IF paramMatch = <<>> THEN d.currentParam
                                 ELSE paramMatch[1],
                !.currentParamDoc = IF paramMatch = <<>>
                                    THEN (IF d.currentParam = <<>>
                                          THEN d.currentParamDoc ELSE <<>>)
                                    ELSE paramMatch[2]]
    ELSE IF StartsWith(line, StrAtReturn)
    THEN [d EXCEPT
            !.paramDocs = SavedParamDocs(d),
            !.currentParam = <<>>,
            !.currentParamDoc = IF d.currentParam = <<>> THEN d.currentParamDoc
                                ELSE <<>>,
            !.returnDoc = Trim(ReplaceFirst(line, StrAtReturn, <<>>))]
    ELSE IF d.currentParam # <<>>
    THEN [d EXCEPT !.currentParamDoc = d.currentParamDoc \o <<" ">> \o line]
    ELSE IF ~StartsWith(line, <<"@">>)
    THEN [d EXCEPT !.mainDocLines = Append(d.mainDocLines, line)]
    ELSE d

RECURSIVE MultiLineLoop(_, _)
MultiLineLoop(d, lines) ==
    IF lines = <<>> THEN d ELSE MultiLineLoop(MultiLineDoc(d, Head(lines)), Tail(lines))

\* mainDocLines.join(" ")
RECURSIVE JoinLines(_)
JoinLines(lines) ==
    IF lines = <<>> THEN <<>>
    ELSE IF Len(lines) = 1 THEN lines[1]
    ELSE lines[1] \o <<" ">> \o JoinLines(Tail(lines))

\* the object parseDocumentation returns for the locals d; the multi-line
\* branch saves the last parameter first
DocResult(d, singleLine) ==
    [mainDoc |-> Trim(JoinLines(d.mainDocLines)),
     paramDocs |-> IF singleLine THEN d.paramDocs ELSE SavedParamDocs(d),
     returnDoc |-> d.returnDoc]

DocOfLines(lines) ==
    IF IsSingleLineDoc(lines) THEN DocResult(SingleLineDoc(lines[1]), TRUE)
    ELSE DocResult(MultiLineLoop(DocStart, lines), FALSE)

parseDocumentation(docComment) ==
    ValueOf({DocOfLines(lines) : lines \in {DocLines(docComment)}})

(***************************************************************************)
(* parseClassDeclaration and parseObjCHeader.                              *)
(***************************************************************************)
StrInterface == <<"@", "i", "n", "t", "e", "r", "f", "a", "c", "e">>
StrEnd == <<"@", "e", "n", "d">>
StrImplementation == <<"@", "i", "m", "p", "l", "e", "m", "e", "n", "t", "a", "t", "i", "o", "n">>
StrSlashes == <<"/", "/">>

\* /@interface\s+(\w+)\s*:\s*(\w+)(?:\s*<([^>]+)>)?/ tried at position p
ClassMatchAt(s, p) ==
    IF ~OccursAt(s, StrInterface, p) THEN NoMatch
    ELSE LET a == p + Len(StrInterface)
             n == RunEnd(s, a, SpaceChars)
             c == RunEnd(s, RunEnd(s, n, WordChars), SpaceChars)
             u == RunEnd(s, c + 1, SpaceChars)
             v == RunEnd(s, u, WordChars)
             l == RunEnd(s, v, SpaceChars)
             g == RunEnd(s, l + 1, Chars \ {">"})
         IN  IF n = a \/ RunEnd(s, n, WordChars) = n \/ ~OccursAt(s, StrColon, c)
                \/ v = u
             THEN NoMatch
             ELSE [NoMatch EXCEPT
                     !.ok = TRUE, !.g1 = Sub(s, n, RunEnd(s, n, WordChars)),
                     !.g2 = Sub(s, u, v),
                     !.g3 = IF OccursAt(s, <<"<">>, l) /\ g > l + 1
                               /\ OccursAt(s, <<">">>, g)
                            THEN Sub(s, l + 1, g) ELSE <<>>]

RECURSIVE FirstClassMatch(_, _)
FirstClassMatch(s, i) ==
    IF i > Len(s) THEN NoMatch
    ELSE IF ClassMatchAt(s, i).ok THEN ClassMatchAt(s, i)
    ELSE FirstClassMatch(s, i + 1)

\* the strings of a list that are not empty
NonEmpty(ss) == SelectSeq(ss, LAMBDA x : x # <<>>)

\* the class information, or threw
parseClassDeclaration(declaration) ==
    ValueOf({IF ~classMatch.ok
             THEN [threw |-> TRUE, name |-> <<>>, superclass |-> <<>>,
                   protocols |-> <<>>, availability |-> <<>>]
             ELSE [threw |-> FALSE, name |-> classMatch.g1,
                   superclass |-> classMatch.g2,
                   protocols |-> NonEmpty(SplitTrim(classMatch.g3)),
                   availability |-> Availability(Trim(declaration))] :
        classMatch \in {FirstClassMatch(Trim(declaration), 1)}})

\* /\/\*!([\s\S]*?)\*\//: the whole match, <<>> when there is none
DocCommentMatch(headerDefinition) ==
    LET p == IndexOf(headerDefinition, StrDocOpen)
        e == IndexOfFrom(headerDefinition, StrDocClose, p + Len(StrDocOpen))
    IN  IF p = 0 \/ e = 0 THEN <<>>
        ELSE Sub(headerDefinition, p, e + Len(StrDocClose))

\* /\/\/\s*([+-][\s\S]*?;)/ from position i on: group 1, <<>> when there is none
RECURSIVE MethodSignatureMatch(_, _)
MethodSignatureMatch(headerDefinition, i) ==
    LET p == IndexOfFrom(headerDefinition, StrSlashes, i)
        a == RunEnd(headerDefinition, p + Len(StrSlashes), SpaceChars)
        e == IndexOfFrom(headerDefinition, StrSemicolon, a + 1)
    IN  IF p = 0 THEN <<>>
        ELSE IF a <= Len(headerDefinition) /\ headerDefinition[a] \in SigilChars
                /\ e # 0
        THEN Sub(headerDefinition, a, e + 1)
        ELSE MethodSignatureMatch(headerDefinition, p + 1)

\* method.parameters.find(p => p.name === name): the position of the first
\* parameter of that name
FirstNamed(parameters, name) ==
    CHOOSE f \in 1..Len(parameters) :
        /\ parameters[f].name = name
        /\ \A g \in 1..(f - 1) : parameters[g].name # name

\* the parameters after the loop that gives the documentation of the i-th
\* @param tag to the first parameter that has the name of the i-th parameter
DocumentedParameters(parameters, paramDocs) ==
    LET positions(k) ==
            {i \in 1..Len(parameters) :
                /\ i <= Len(paramDocs)
                /\ FirstNamed(parameters, parameters[i].name) = k}
    IN  [k \in 1..Len(parameters) |->
           [documentation |->
               IF positions(k) = {} THEN <<>>
               ELSE paramDocs[CHOOSE i \in positions(k) :
                                 \A j \in positions(k) : j <= i][2]]
           @@ parameters[k]]

\* the method of a doc comment followed by `// declaration`, or threw
parseObjCHeader(headerDefinition) ==
    IF DocCommentMatch(headerDefinition) = <<>>
       \/ MethodSignatureMatch(headerDefinition, 1) = <<>>
    THEN [documentation |-> <<>>, returnDocumentation |-> <<>>] @@ Threw
    ELSE ValueOf({
           IF methodInfo.threw
           THEN [documentation |-> <<>>, returnDocumentation |-> <<>>] @@ Threw
           ELSE [parameters |-> DocumentedParameters(methodInfo.parameters,
                                                     doc.paramDocs),
                 documentation |-> doc.mainDoc,
                 returnDocumentation |-> doc.returnDoc] @@ methodInfo :
           methodInfo \in {parseMethodSignature(
                               MethodSignatureMatch(headerDefinition, 1))},
           doc \in {parseDocumentation(DocCommentMatch(headerDefinition))}})

\* the method of a declaration without a doc comment, or threw
UndocumentedMethod(methodDeclaration) ==
    ValueOf({[parameters |->
                 [k \in 1..Len(methodBase.parameters) |->
                     [documentation |-> <<>>] @@ methodBase.parameters[k]],
              documentation |-> <<>>, returnDocumentation |-> <<>>] @@ methodBase :
        methodBase \in {parseMethodSignature(methodDeclaration)}})

(***************************************************************************)
(* parseObjCHeaderFile: one action for each branch of the loop over the    *)
(* lines.  The branch `@end` while isInImplementation (line 723) is behind *)
(* the branch `@end` of line 709 and is never taken.                       *)
(***************************************************************************)
MaxLines == 4

\* the lines a header is made of
HeaderLineTexts == <<
    \* 1 `@interface Fo : NSObject`
    <<"@", "i", "n", "t", "e", "r", "f", "a", "c", "e", " ", "F", "o", " ", ":", " ", "N", "S", "O", "b", "j", "e", "c", "t">>,
    \* 2 `@interface Ba`
    <<"@", "i", "n", "t", "e", "r", "f", "a", "c", "e", " ", "B", "a">>,
    \* 3 `@end`
    <<"@", "e", "n", "d">>,
    \* 4 `@property (nonatomic) int fo;`
    <<"@", "p", "r", "o", "p", "e", "r", "t", "y", " ", "(", "n", "o", "n", "a", "t", "o", "m", "i", "c", ")", " ", "i", "n", "t", " ", "f", "o", ";">>,
    \* 5 `@property (nonatomic) void (^fo)(void);`
    <<"@", "p", "r", "o", "p", "e", "r", "t", "y", " ", "(", "n", "o", "n", "a", "t", "o", "m", "i", "c", ")", " ", "v", "o", "i", "d", " ", "(", "^", "f", "o", ")", "(", "v", "o", "i", "d", ")", ";">>,
    \* 6 `- (void)fo;`
    <<"-", " ", "(", "v", "o", "i", "d", ")", "f", "o", ";">>,
    \* 7 `- fo;`
    <<"-", " ", "f", "o", ";">>,
    \* 8 `- (void)ba:(int)x`
    <<"-", " ", "(", "v", "o", "i", "d", ")", "b", "a", ":", "(", "i", "n", "t", ")", "x">>,
    \* 9 `y:(int)y;`
    <<"y", ":", "(", "i", "n", "t", ")", "y", ";">>,
    \* 10 `/*! Do. */`
    <<"/", "*", "!", " ", "D", "o", ".", " ", "*", "/">>,
    \* 11 `/*!`
    <<"/", "*", "!">>,
    \* 12 `Do. */`
    <<"D", "o", ".", " ", "*", "/">>,
    \* 13 `@implementation Fo`
    <<"@", "i", "m", "p", "l", "e", "m", "e", "n", "t", "a", "t", "i", "o", "n", " ", "F", "o">>,
    \* 14 ``
    <<>> >>

Headers == UNION {[1..n -> 1..Len(HeaderLineTexts)] : n \in 0..MaxLines}

NoCurrentClass == [open |-> FALSE]

ScanInit ==
    /\ decl = [head |-> 1, body |-> <<>>]
    /\ signature = <<>>
    /\ method = Threw
    /\ sigPc = "idle"
    /\ cls = NoClass
    /\ classDeclaration = <<>>
    /\ methodGroups = <<>>
    /\ groupIdx = 0
    /\ genPc = "idle"
    /\ call = NoCall
    /\ propRun = Idle /\ convRun = Idle /\ docRun = Idle
    /\ FilesIdle
    /\ \E header \in Headers :
          scan = [pc |-> "loop", header |-> header, i |-> 1, classes |-> <<>>,
                  currentClass |-> NoCurrentClass, currentDocComment |-> <<>>,
                  isInDocComment |-> FALSE, isInImplementation |-> FALSE]

\* lines[i].trim()
Line(i) == Trim(HeaderLineTexts[scan.header[i]])
ThisLine == Line(scan.i)

\* the loop is at a line
AtLine == scan.pc = "loop" /\ scan.i <= Len(scan.header)

\* the tests of the loop body, in the order the body makes them
IsEmptyLine == ThisLine = <<>>
IsDocStart == ~IsEmptyLine /\ StartsWith(ThisLine, StrDocOpen)
IsDocContinuation == ~IsEmptyLine /\ ~IsDocStart /\ scan.isInDocComment
IsOrdinary == ~IsEmptyLine /\ ~IsDocStart /\ ~scan.isInDocComment
IsInterface == IsOrdinary /\ StartsWith(ThisLine, StrInterface)
IsEnd == IsOrdinary /\ StartsWith(ThisLine, StrEnd)
IsImplementation == IsOrdinary /\ StartsWith(ThisLine, StrImplementation)
IsSkipped ==
    /\ IsOrdinary /\ ~IsInterface /\ ~IsEnd /\ ~IsImplementation
    /\ scan.isInImplementation
IsMember ==
    /\ IsOrdinary /\ ~IsInterface /\ ~IsEnd /\ ~IsImplementation
    /\ ~scan.isInImplementation
    /\ scan.currentClass.open
IsProperty == IsMember /\ StartsWith(ThisLine, StrProperty)
IsMethod ==
    /\ IsMember /\ ~IsProperty
    /\ (StartsWith(ThisLine, StrPlus) \/ StartsWith(ThisLine, <<"-">>))
IsOther ==
    /\ IsOrdinary /\ ~IsInterface /\ ~IsEnd /\ ~IsImplementation
    /\ ~scan.isInImplementation
    /\ ~IsProperty /\ ~IsMethod

\* array.push(item)
PushMutant(array, item) == <<item>> \o array
Push(array, item) == Append(array, item)

\* the main description of the buffered doc comment, "" without one
BufferedMainDoc ==
    IF scan.currentDocComment = <<>> THEN <<>>
    ELSE parseDocumentation(scan.currentDocComment).mainDoc

SkipEmptyLine ==
    /\ AtLine /\ IsEmptyLine
    /\ scan' = [scan EXCEPT !.i = scan.i + 1]
    /\ UNCHANGED <<sigVars, genVars, fileVars, propRun, convRun, docRun>>

StartDocComment ==
    /\ AtLine /\ IsDocStart
    /\ scan' = [scan EXCEPT !.i = scan.i + 1, !.isInDocComment = TRUE,
                            !.currentDocComment = ThisLine]
    /\ UNCHANGED <<sigVars, genVars, fileVars, propRun, convRun, docRun>>

ContinueDocComment ==
    /\ AtLine /\ IsDocContinuation
    /\ scan' = [scan EXCEPT
                  !.i = scan.i + 1,
                  !.currentDocComment = scan.currentDocComment \o <<Newline>>
                                        \o ThisLine,
                  !.isInDocComment = ~Includes(ThisLine, StrDocClose)]
    /\ UNCHANGED <<sigVars, genVars, fileVars, propRun, convRun, docRun>>

\* the class a parsed @interface line opens; line is the number of the line,
\* kept for the properties of the result
OpenedClass(classInfo) ==
    [open |-> TRUE, line |-> scan.i, name |-> classInfo.name,
     superclass |-> classInfo.superclass, protocols |-> classInfo.protocols,
     availability |-> classInfo.availability,
     documentation |-> BufferedMainDoc, properties |-> <<>>, methods |-> <<>>]

InterfaceLine ==
    /\ AtLine /\ IsInterface
    /\ scan' = IF parseClassDeclaration(ThisLine).threw
               THEN [scan EXCEPT !.i = scan.i + 1]
               ELSE [scan EXCEPT
                       !.i = scan.i + 1,
                       !.currentClass = OpenedClass(parseClassDeclaration(ThisLine)),
                       !.currentDocComment = <<>>]
    /\ UNCHANGED <<sigVars, genVars, fileVars, propRun, convRun, docRun>>

EndLine ==
    /\ AtLine /\ IsEnd
    /\ scan' = IF scan.currentClass.open
               THEN [scan EXCEPT !.i = scan.i + 1,
                                 !.classes = Push(scan.classes, scan.currentClass),
                                 !.currentClass = NoCurrentClass]
               ELSE [scan EXCEPT !.i = scan.i + 1]
    /\ UNCHANGED <<sigVars, genVars, fileVars, propRun, convRun, docRun>>

ImplementationLine ==
    /\ AtLine /\ IsImplementation
    /\ scan' = [scan EXCEPT !.i = scan.i + 1, !.isInImplementation = TRUE]
    /\ UNCHANGED <<sigVars, genVars, fileVars, propRun, convRun, docRun>>

SkipImplementationLine ==
    /\ AtLine /\ IsSkipped
    /\ scan' = [scan EXCEPT !.i = scan.i + 1]
    /\ UNCHANGED <<sigVars, genVars, fileVars, propRun, convRun, docRun>>

PropertyLine ==
    /\ AtLine /\ IsProperty
    /\ scan' = [scan EXCEPT
                  !.i = scan.i + 1,
                  !.currentClass.properties =
                      Push(scan.currentClass.properties,
                           [line |-> scan.i, documentation |-> BufferedMainDoc]
                           @@ parsePropertyDeclaration(ThisLine)),
                  !.currentDocComment = <<>>]
    /\ UNCHANGED <<sigVars, genVars, fileVars, propRun, convRun, docRun>>

\* the while loop that collects the lines of a method declaration: the
\* declaration and the number of the first line that is not part of it
RECURSIVE CollectMethodDeclaration(_, _)
CollectMethodDeclaration(methodDeclaration, j) ==
    IF j <= Len(scan.header) /\ ~Includes(methodDeclaration, StrSemicolon)
    THEN CollectMethodDeclaration(methodDeclaration \o <<" ">> \o Line(j), j + 1)
    ELSE [methodDeclaration |-> methodDeclaration, j |-> j]

\* the method the try block gets from the declaration, or threw
MethodInfo(methodDeclaration) ==
    IF scan.currentDocComment # <<>>
    THEN parseObjCHeader(scan.currentDocComment \o <<Newline>> \o StrSlashes
                         \o <<" ">> \o methodDeclaration)
    ELSE UndocumentedMethod(methodDeclaration)

MethodLineOf(collected, methodInfo) ==
    IF methodInfo.threw
    THEN [scan EXCEPT !.i = collected.j]
    ELSE [scan EXCEPT
            !.i = collected.j,
            !.currentClass.methods =
                Push(scan.currentClass.methods, [line |-> scan.i] @@ methodInfo),
            !.currentDocComment = <<>>]

MethodLine ==
    /\ AtLine /\ IsMethod
    /\ scan' = ValueOf({MethodLineOf(collected,
                                     MethodInfo(collected.methodDeclaration)) :
                   collected \in {CollectMethodDeclaration(ThisLine, scan.i + 1)}})
    /\ UNCHANGED <<sigVars, genVars, fileVars, propRun, convRun, docRun>>

OtherLine ==
    /\ AtLine /\ IsOther
    /\ scan' = [scan EXCEPT !.i = scan.i + 1]
    /\ UNCHANGED <<sigVars, genVars, fileVars, propRun, convRun, docRun>>

ReturnClasses ==
    /\ scan.pc = "loop" /\ scan.i > Len(scan.header)
    /\ scan' = [scan EXCEPT !.pc = "done"]
    /\ UNCHANGED <<sigVars, genVars, fileVars, propRun, convRun, docRun>>

ScanNext ==
    \/ SkipEmptyLine
    \/ StartDocComment
    \/ ContinueDocComment
    \/ InterfaceLine
    \/ EndLine
    \/ ImplementationLine
    \/ SkipImplementationLine
    \/ PropertyLine
    \/ MethodLine
    \/ OtherLine
    \/ ReturnClasses

SpecHeader == ScanInit /\ [][ScanNext]_vars

(***************************************************************************)
(* Claims about parseObjCHeaderFile.                                       *)
(***************************************************************************)
HeaderLines == 1..Len(scan.header)

\* the header holds no doc comment and no @implementation up to line e
PlainUpTo(e) ==
    \A b \in 1..e : /\ ~StartsWith(Line(b), StrDocOpen)
                    /\ ~StartsWith(Line(b), StrImplementation)

\* line e is the first @end line after line a, and no @interface line is
\* between them
ClosedBy(a, e) ==
    /\ a < e /\ StartsWith(Line(e), StrEnd)
    /\ \A b \in (a + 1)..(e - 1) : /\ ~StartsWith(Line(b), StrEnd)
                                   /\ ~StartsWith(Line(b), StrInterface)

ParsedInterfaceLine(a) ==
    StartsWith(Line(a), StrInterface) /\ ~parseClassDeclaration(Line(a)).threw

FailedInterfaceLine(a) ==
    StartsWith(Line(a), StrInterface) /\ parseClassDeclaration(Line(a)).threw

PropertyLines(c) == {c.properties[k].line : k \in 1..Len(c.properties)}
MethodLines(c) == {c.methods[k].line : k \in 1..Len(c.methods)}

\* a declaration on one line, and whether the parser fails on it
IsPropertyDeclaration(b) == StartsWith(Line(b), StrProperty)
IsMethodDeclaration(b) ==
    /\ StartsWith(Line(b), StrPlus) \/ StartsWith(Line(b), <<"-">>)
    /\ Includes(Line(b), StrSemicolon)
ParserFailsOn(b) ==
    IF IsPropertyDeclaration(b) THEN PropertyBody(Line(b)).threw
    ELSE parseMethodSignature(Line(b)).threw

\* C12 (as claimed): for a class whose @interface line parses and that is
\* closed by an @end line, the returned list has the class, with every
\* well-formed property and method declared between the two lines and with
\* none of the declarations the parser fails on.
C12_MalformedMemberSkipped ==
    scan.pc = "done" =>
        \A a \in HeaderLines, e \in HeaderLines :
            (PlainUpTo(e) /\ ParsedInterfaceLine(a) /\ ClosedBy(a, e)) =>
                \E k \in 1..Len(scan.classes) :
                    /\ scan.classes[k].line = a
                    /\ \A b \in (a + 1)..(e - 1) :
                          /\ IsPropertyDeclaration(b) =>
                                (b \in PropertyLines(scan.classes[k])
                                    <=> ~ParserFailsOn(b))
                          /\ IsMethodDeclaration(b) =>
                                (b \in MethodLines(scan.classes[k])
                                    <=> ~ParserFailsOn(b))

\* C13 (as claimed): an @interface line that fails to parse gives no class,
\* and no property or method line between it and its @end line is in any
\* class of the returned list.
C13_FailedInterfaceSkipped ==
    scan.pc = "done" =>
        \A a \in HeaderLines, e \in HeaderLines :
            (PlainUpTo(e) /\ FailedInterfaceLine(a) /\ ClosedBy(a, e)) =>
                \A k \in 1..Len(scan.classes) :
                    /\ scan.classes[k].line # a
                    /\ \A b \in (a + 1)..(e - 1) :
                          /\ b \notin PropertyLines(scan.classes[k])
                          /\ b \notin MethodLines(scan.classes[k])

\* the lines of the members are in increasing order
Increasing(members) ==
    \A k \in 1..Len(members), l \in 1..Len(members) :
        k < l => members[k].line < members[l].line

\* the classes extracted so far, the open one last
ExtractedClasses ==
    IF scan.currentClass.open THEN Append(scan.classes, scan.currentClass)
    ELSE scan.classes

\* C15: the classes are in the order of their @interface lines, the
\* properties and the methods of each class are in the order of their
\* declaration lines, every member is declared after the @interface line of
\* its class and before that of the next class, so that no declaration is in
\* the result twice.
C15_DeclarationOrder ==
    /\ Increasing(scan.classes)
    /\ \A k \in 1..Len(ExtractedClasses) :
          LET c == ExtractedClasses[k]
          IN  /\ StartsWith(Line(c.line), StrInterface)
              /\ Increasing(c.properties)
              /\ Increasing(c.methods)
              /\ \A b \in PropertyLines(c) : StartsWith(Line(b), StrProperty)
              /\ \A b \in MethodLines(c) :
                    StartsWith(Line(b), StrPlus) \/ StartsWith(Line(b), <<"-">>)
              /\ \A b \in PropertyLines(c) \cup MethodLines(c) :
                    /\ c.line < b
                    /\ k < Len(ExtractedClasses) => b < ExtractedClasses[k + 1].line

\* a class with two properties was returned
C15_Witness ==
    /\ scan.pc = "done"
    /\ \E k \in 1..Len(scan.classes) : Len(scan.classes[k].properties) >= 2

(***************************************************************************)
(* Claims about parsePropertyDeclaration and the types of a property.      *)
(***************************************************************************)
\* C16: parsePropertyDeclaration always returns a property, and when the
\* try block fails it returns exactly the minimal property: name "", type
\* 'id', isReadOnly false, isNullable false, attributes [].
C16_MinimalPropertyOnFailure ==
    propRun.pc = "parsed" =>
        /\ DOMAIN propRun.property = DOMAIN MinimalProperty
        /\ propRun.threw =>
              /\ propRun.property.name = <<>>
              /\ propRun.property.type = StrId
              /\ ~propRun.property.isReadOnly
              /\ ~propRun.property.isNullable
              /\ propRun.property.attributes = <<>>

\* a declaration with an attribute list whose name cannot be read was parsed
C16_Witness ==
    /\ propRun.pc = "parsed"
    /\ propRun.threw
    /\ PropertyBody(propRun.text).value.attributes # <<>>
    /\ propRun.property = MinimalProperty

HasAttribute(property, attribute) ==
    \E i \in 1..Len(property.attributes) : property.attributes[i] = attribute

\* C17 (as claimed): a property whose attribute list contains `nullable` is
\* parsed with isNullable = true, whether or not its type is a pointer.
C17_NullableAttribute ==
    propRun.pc = "parsed" /\ HasAttribute(propRun.property, StrNullable)
        => propRun.property.isNullable

\* the number of places of s where lit occurs
Occurrences(s, lit) == Cardinality({i \in 1..Len(s) : OccursAt(s, lit, i)})

StrBarNull == <<"|", " ", "n", "u", "l", "l">>

\* the type texts of the accessors of the property
AccessorTypes ==
    {propRun.accessors[k].returnType :
        k \in {j \in 1..Len(propRun.accessors) : propRun.accessors[j].kind = "get"}}
    \cup {propRun.accessors[k].params[1].type :
        k \in {j \in 1..Len(propRun.accessors) : propRun.accessors[j].kind = "set"}}

\* C19 (as claimed): for a property parsed as nullable the emitted type text
\* contains '| null' exactly once, in the interface text and in the accessors.
C19_NullOnceOnEachPath ==
    /\ propRun.pc = "parsed"
    /\ propRun.property.isNullable
    /\ propRun.interfaceType # NotEmitted
    /\ propRun.accessorsEmitted
    => /\ Occurrences(propRun.interfaceType, StrBarNull) = 1
       /\ \A t \in AccessorTypes : Occurrences(t, StrBarNull) = 1

(***************************************************************************)
(* The two type mapping functions, applied to one native type name.        *)
(***************************************************************************)
\* native type names: the keys of the two tables and names of neither
TypeNames == <<
    \* `NSString`
    <<"N", "S", "S", "t", "r", "i", "n", "g">>,
    \* `NSNumber`
    <<"N", "S", "N", "u", "m", "b", "e", "r">>,
    \* `NSInteger`
    <<"N", "S", "I", "n", "t", "e", "g", "e", "r">>,
    \* `NSUInteger`
    <<"N", "S", "U", "I", "n", "t", "e", "g", "e", "r">>,
    \* `BOOL`
    <<"B", "O", "O", "L">>,
    \* `CGFloat`
    <<"C", "G", "F", "l", "o", "a", "t">>,
    \* `double`
    <<"d", "o", "u", "b", "l", "e">>,
    \* `float`
    <<"f", "l", "o", "a", "t">>,
    \* `int`
    <<"i", "n", "t">>,
    \* `long`
    <<"l", "o", "n", "g">>,
    \* `char`
    <<"c", "h", "a", "r">>,
    \* `id`
    <<"i", "d">>,
    \* `instancetype`
    <<"i", "n", "s", "t", "a", "n", "c", "e", "t", "y", "p", "e">>,
    \* `void`
    <<"v", "o", "i", "d">>,
    \* `NSArray`
    <<"N", "S", "A", "r", "r", "a", "y">>,
    \* `NSDictionary`
    <<"N", "S", "D", "i", "c", "t", "i", "o", "n", "a", "r", "y">>,
    \* `NSSet`
    <<"N", "S", "S", "e", "t">>,
    \* `NSImage`
    <<"N", "S", "I", "m", "a", "g", "e">>,
    \* `SEL`
    <<"S", "E", "L">>,
    \* `NSView`
    <<"N", "S", "V", "i", "e", "w">>,
    \* `NSObject`
    <<"N", "S", "O", "b", "j", "e", "c", "t">>,
    \* `UXButton`
    <<"U", "X", "B", "u", "t", "t", "o", "n">>,
    \* `NSString*`
    <<"N", "S", "S", "t", "r", "i", "n", "g", "*">>,
    \* `toString`
    <<"t", "o", "S", "t", "r", "i", "n", "g">>,
    \* `constructor`
    <<"c", "o", "n", "s", "t", "r", "u", "c", "t", "o", "r">>,
    \* `valueOf`
    <<"v", "a", "l", "u", "e", "O", "f">> >>

\* what is written before and after the name in the text given to
\* convertObjCTypeToTypeScriptString
TypePrefixes == << <<>>, <<"n", "u", "l", "l", "a", "b", "l", "e", " ">> >>

TypeSuffixes == << <<>>, <<"*">>, <<" ", "_", "N", "u", "l", "l", "a", "b", "l", "e">> >>

TypeInit ==
    /\ decl = [head |-> 1, body |-> <<>>]
    /\ signature = <<>>
    /\ method = Threw
    /\ sigPc = "idle"
    /\ cls = NoClass
    /\ classDeclaration = <<>>
    /\ methodGroups = <<>>
    /\ groupIdx = 0
    /\ genPc = "idle"
    /\ call = NoCall
    /\ scan = Idle /\ propRun = Idle /\ docRun = Idle
    /\ FilesIdle
    /\ \E n \in 1..Len(TypeNames), isNullable \in BOOLEAN,
          pre \in 1..Len(TypePrefixes), suf \in 1..Len(TypeSuffixes) :
          convRun = [pc |-> "input", objcType |-> TypeNames[n],
                     isNullable |-> isNullable,
                     text |-> TypePrefixes[pre] \o TypeNames[n] \o TypeSuffixes[suf],
                     tsType |-> NotEmitted, tsTypeString |-> NotEmitted]

\* convertTypeToTypeScript(objcType, isNullable)
ConvertType ==
    /\ convRun.pc = "input"
    /\ convRun.tsType = NotEmitted
    /\ convRun' = [convRun EXCEPT
                     !.tsType = convertTypeToTypeScript(convRun.objcType,
                                                        convRun.isNullable)]
    /\ UNCHANGED <<sigVars, genVars, fileVars, scan, propRun, docRun>>

\* convertObjCTypeToTypeScriptString(text)
ConvertTypeString ==
    /\ convRun.pc = "input"
    /\ convRun.tsTypeString = NotEmitted
    /\ convRun' = [convRun EXCEPT
                     !.tsTypeString = convertObjCTypeToTypeScriptString(convRun.text)]
    /\ UNCHANGED <<sigVars, genVars, fileVars, scan, propRun, docRun>>

TypeNext == ConvertType \/ ConvertTypeString

SpecType == TypeInit /\ [][TypeNext]_vars

Keys(map) == {map[i][1] : i \in 1..Len(map)}

\* the text without the suffix ' | null'
WithoutNull(tsType) ==
    IF EndsWith(tsType, StrNullSuffix)
    THEN Sub(tsType, 1, Len(tsType) - Len(StrNullSuffix) + 1) ELSE tsType

\* the name convertObjCTypeToTypeScriptString looks up for the text
CleanTypeOf(text) ==
    LET trimmed == Trim(ReplaceFirst(ReplaceFirst(text, StrNullable, <<>>),
                                     StrUnderscoreNullable, <<>>))
    IN  IF EndsWith(trimmed, StrStar) THEN Sub(trimmed, 1, Len(trimmed)) ELSE trimmed

\* C18 (as claimed): for a native type name that is not a key of its lookup
\* table, each of the two type mapping functions returns the opaque
\* reference type, the type its table gives for `id`.
C18_UnknownTypeIsOpaque ==
    /\ (convRun.pc = "input" /\ convRun.tsType # NotEmitted
        /\ convRun.objcType \notin Keys(typeMap))
       => WithoutNull(convRun.tsType) = Lookup(typeMap, StrId)
    /\ (convRun.pc = "input" /\ convRun.tsTypeString # NotEmitted
        /\ CleanTypeOf(convRun.text) \notin Keys(typeMapString))
       => WithoutNull(convRun.tsTypeString) = Lookup(typeMapString, StrId)

(***************************************************************************)
(* parseDocumentation run on one doc block.                                *)
(***************************************************************************)
MaxParamTags == 2

\* the description of a doc block, none or `Adds.`
DocDescriptions == << <<>>, <<"A", "d", "d", "s", ".">> >>

\* the @param tags: name, text on the line of the tag, and the text of the
\* line that follows the tag (`in px`, or none)
DocParamTags == <<
    [name |-> <<"x">>, text |-> <<"t", "h", "e", " ", "x", " ", "v", "a", "l", "u", "e">>,
     more |-> <<>>],
    [name |-> <<"y">>, text |-> <<"t", "h", "e", " ", "y">>, more |-> <<>>],
    [name |-> <<"x">>, text |-> <<>>, more |-> <<>>],
    [name |-> <<"y">>, text |-> <<"t", "h", "e", " ", "y">>,
     more |-> <<"i", "n", " ", "p", "x">>],
    [name |-> <<"y">>, text |-> <<>>, more |-> <<"i", "n", " ", "p", "x">>] >>

\* the text of the @return tag, none or `the sum`
DocReturns == << <<>>, <<"t", "h", "e", " ", "s", "u", "m">> >>

\* the layouts: all on the opening line; one piece a line after `* `; one
\* piece a line after ` * ` with the closing marker indented as well; one
\* piece a line without a star
DocLayouts == 1..4
DocLinePrefixes == << <<" ">>, <<Newline, "*", " ">>, <<Newline, " ", "*", " ">>,
                      <<Newline>> >>
DocClosings == << <<" ", "*", "/">>, <<Newline, "*", "/">>,
                  <<Newline, " ", "*", "/">>, <<Newline, "*", "/">> >>

DocInputs ==
    [description : 1..Len(DocDescriptions),
     tags : UNION {[1..n -> 1..Len(DocParamTags)] : n \in 0..MaxParamTags},
     return : 1..Len(DocReturns),
     layout : DocLayouts]

\* the pieces of a tag: its line and, if it has one, the line that follows it
TagPieces(tag) ==
    <<StrAtParam \o <<" ">> \o tag.name
      \o (IF tag.text = <<>> THEN <<>> ELSE <<" ">> \o tag.text)>>
    \o (IF tag.more = <<>> THEN <<>> ELSE <<tag.more>>)

\* the description, the tags and the @return tag of the block, in this order
DocPieces(in) ==
    (IF DocDescriptions[in.description] = <<>> THEN <<>>
     ELSE <<DocDescriptions[in.description]>>)
    \o Concat([k \in 1..Len(in.tags) |-> TagPieces(DocParamTags[in.tags[k]])])
    \o (IF DocReturns[in.return] = <<>> THEN <<>>
        ELSE <<StrAtReturn \o <<" ">> \o DocReturns[in.return]>>)

DocText(in) ==
    StrDocOpen
    \o Concat([k \in 1..Len(DocPieces(in)) |->
                  DocLinePrefixes[in.layout] \o DocPieces(in)[k]])
    \o DocClosings[in.layout]

DocInit ==
    /\ decl = [head |-> 1, body |-> <<>>]
    /\ signature = <<>>
    /\ method = Threw
    /\ sigPc = "idle"
    /\ cls = NoClass
    /\ classDeclaration = <<>>
    /\ methodGroups = <<>>
    /\ groupIdx = 0
    /\ genPc = "idle"
    /\ call = NoCall
    /\ scan = Idle /\ propRun = Idle /\ convRun = Idle
    /\ FilesIdle
    /\ \E in \in DocInputs :
          docRun = [pc |-> "input", in |-> in, docComment |-> DocText(in),
                    lines |-> <<>>, k |-> 1, d |-> DocStart,
                    result |-> DocResult(DocStart, TRUE)]

\* the comment is cleaned and split into its lines
SplitDocComment ==
    /\ docRun.pc = "input"
    /\ docRun' = [docRun EXCEPT !.pc = "lines",
                                !.lines = DocLines(docRun.docComment)]
    /\ UNCHANGED <<sigVars, genVars, fileVars, scan, propRun, convRun>>

\* the single-line branch, and the return
SingleLineBranch ==
    /\ docRun.pc = "lines"
    /\ IsSingleLineDoc(docRun.lines)
    /\ docRun' = [docRun EXCEPT
                    !.pc = "done",
                    !.d = SingleLineDoc(docRun.lines[1]),
                    !.result = DocResult(SingleLineDoc(docRun.lines[1]), TRUE)]
    /\ UNCHANGED <<sigVars, genVars, fileVars, scan, propRun, convRun>>

\* one iteration of the loop of the multi-line branch
MultiLineBranchLine ==
    /\ docRun.pc = "lines"
    /\ ~IsSingleLineDoc(docRun.lines)
    /\ docRun.k <= Len(docRun.lines)
    /\ docRun' = [docRun EXCEPT
                    !.k = docRun.k + 1,
                    !.d = MultiLineDoc(docRun.d, docRun.lines[docRun.k])]
    /\ UNCHANGED <<sigVars, genVars, fileVars, scan, propRun, convRun>>

\* the end of the loop of the multi-line branch, and the return
MultiLineBranchReturn ==
    /\ docRun.pc = "lines"
    /\ ~IsSingleLineDoc(docRun.lines)
    /\ docRun.k > Len(docRun.lines)
    /\ docRun' = [docRun EXCEPT !.pc = "done",
                                !.result = DocResult(docRun.d, FALSE)]
    /\ UNCHANGED <<sigVars, genVars, fileVars, scan, propRun, convRun>>

DocNext ==
    \/ SplitDocComment
    \/ SingleLineBranch
    \/ MultiLineBranchLine
    \/ MultiLineBranchReturn

SpecDoc == DocInit /\ [][DocNext]_vars

\* C20 (as claimed): parseDocumentation returns the same mainDoc, paramDocs
\* and returnDoc whether the description, the @param tags and the @return tag
\* of the block are on one line or on separate lines; for `@param x the x
\* value` followed by `@return the sum` paramDocs is {x: 'the x value'} and
\* returnDoc is 'the sum'.
C20_LayoutIndependent ==
    docRun.pc = "done" =>
        /\ docRun.result = parseDocumentation(DocText([docRun.in EXCEPT !.layout = 1]))
        /\ (docRun.in.tags = <<1>> /\ docRun.in.return = 2) =>
              /\ docRun.result.paramDocs =
                     << <<DocParamTags[1].name, DocParamTags[1].text>> >>
              /\ docRun.result.returnDoc = DocReturns[2]

(***************************************************************************)
(* Claims about the doc comments of parseObjCHeaderFile.                   *)
(***************************************************************************)
\* C24 (as claimed): the scanner is inside a doc comment only between a line
\* that starts with the opening marker and the first line from it on, itself
\* included, that contains the closing marker; the line after that one is
\* processed as an ordinary line.
C24_DocCommentEndsAtClosingMarker ==
    (scan.pc = "loop" /\ scan.isInDocComment) =>
        \E o \in 1..(scan.i - 1) :
            /\ StartsWith(Line(o), StrDocOpen)
            /\ \A b \in o..(scan.i - 1) : ~Includes(Line(b), StrDocClose)

\* the classes, properties and methods extracted so far that have a
\* documentation, as the numbers of their lines
DocumentedLines ==
    UNION {(IF c.documentation # <<>> THEN {c.line} ELSE {})
           \cup {c.properties[k].line : k \in
                    {l \in 1..Len(c.properties) : c.properties[l].documentation # <<>>}}
           \cup {c.methods[k].line : k \in
                    {l \in 1..Len(c.methods) : c.methods[l].documentation # <<>>}} :
           c \in {ExtractedClasses[k] : k \in 1..Len(ExtractedClasses)}}

\* line e is the last non-blank line before line b
LastLineBefore(e, b) ==
    e < b /\ Line(e) # <<>> /\ \A n \in (e + 1)..(b - 1) : Line(n) = <<>>

\* C25 (as claimed): a class, property or method has a documentation only if
\* a doc comment ends on the last non-blank line before its line, so that a
\* doc comment followed by another line is attached to no later construct
\* and no doc comment is attached to two constructs.
C25_DocCommentImmediatelyPrecedes ==
    \A b \in DocumentedLines :
        \E e \in 1..(b - 1) :
            /\ LastLineBefore(e, b)
            /\ Includes(Line(e), StrDocClose) \/ StartsWith(Line(e), StrDocOpen)

\* C28 (as claimed): the scanner skips lines as part of an implementation
\* only between an @implementation line and the next @end line; from that
\* @end line on it is out of the skipping state, so that the members of a
\* later @interface are extracted.
C28_ImplementationEndsAtEnd ==
    (/\ scan.pc = "loop" /\ scan.isInImplementation
     /\ \A b \in 1..(scan.i - 1) : ~StartsWith(Line(b), StrDocOpen)) =>
        \E a \in 1..(scan.i - 1) :
            /\ StartsWith(Line(a), StrImplementation)
            /\ \A b \in (a + 1)..(scan.i - 1) : ~StartsWith(Line(b), StrEnd)

(***************************************************************************)
(* Claims about the classes parseObjCHeaderFile returns.                   *)
(***************************************************************************)
\* line a is read by the loop itself: no method declaration without a
\* semicolon before it takes it as one of its lines
ReadByLoop(a) ==
    \A b \in 1..(a - 1) :
        (StartsWith(Line(b), StrPlus) \/ StartsWith(Line(b), <<"-">>)) =>
            Includes(Line(b), StrSemicolon)

\* line b is after line a and before the next @interface or @end line
DeclaredIn(a, b) ==
    /\ a < b
    /\ \A n \in (a + 1)..b : /\ ~StartsWith(Line(n), StrInterface)
                             /\ ~StartsWith(Line(n), StrEnd)

\* C30 (as claimed): in a header without doc comments and @implementation
\* lines, every @interface line that parses gives exactly one class of the
\* returned list, and the members of that class are the well-formed
\* declarations after the line and before the next @interface or @end line,
\* whether or not the class is closed by an @end line.
C30_OneClassPerInterfaceLine ==
    (scan.pc = "done" /\ PlainUpTo(Len(scan.header))) =>
        \A a \in HeaderLines :
            (ParsedInterfaceLine(a) /\ ReadByLoop(a)) =>
                /\ Cardinality({k \in 1..Len(scan.classes) :
                                   scan.classes[k].line = a}) = 1
                /\ \A k \in 1..Len(scan.classes) :
                      scan.classes[k].line = a =>
                          /\ \A b \in PropertyLines(scan.classes[k])
                                      \cup MethodLines(scan.classes[k]) :
                                DeclaredIn(a, b)
                          /\ \A b \in HeaderLines :
                                (DeclaredIn(a, b) /\ ReadByLoop(b)) =>
                                    /\ IsPropertyDeclaration(b) =>
                                          b \in PropertyLines(scan.classes[k])
                                    /\ (IsMethodDeclaration(b) /\ ~ParserFailsOn(b)) =>
                                          b \in MethodLines(scan.classes[k])

(***************************************************************************)
(* Claims about the multi-line branch of parseDocumentation.               *)
(***************************************************************************)
\* a line `@param <name>`, with or without text after the name, and its name
IsParamMarker(line) ==
    /\ StartsWith(line, StrAtParam)
    /\ RunEnd(line, Len(StrAtParam) + 1, SpaceChars) > Len(StrAtParam) + 1
    /\ RunEnd(line, RunEnd(line, Len(StrAtParam) + 1, SpaceChars), WordChars)
          > RunEnd(line, Len(StrAtParam) + 1, SpaceChars)
MarkerName(line) ==
    Sub(line, RunEnd(line, Len(StrAtParam) + 1, SpaceChars),
        RunEnd(line, RunEnd(line, Len(StrAtParam) + 1, SpaceChars), WordChars))

\* a line that starts a @param or a @return tag
IsMarker(line) == StartsWith(line, StrAtParam) \/ StartsWith(line, StrAtReturn)

\* line k follows the marker line m, with no marker line between them, and
\* no other marker line has the name of line m
ContinuesMarker(lines, m, k) ==
    /\ m < k /\ IsParamMarker(lines[m])
    /\ \A n \in (m + 1)..k : ~IsMarker(lines[n])
    /\ \A n \in 1..Len(lines) :
          (n # m /\ IsParamMarker(lines[n])) =>
              MarkerName(lines[n]) # MarkerName(lines[m])

\* paramDocs[name], "" when the parameter has no entry
ParamDocOf(paramDocs, name) ==
    IF \E q \in 1..Len(paramDocs) : paramDocs[q][1] = name
    THEN paramDocs[CHOOSE q \in 1..Len(paramDocs) : paramDocs[q][1] = name][2]
    ELSE <<>>

\* C26 (as claimed): in the multi-line branch, every line between a line
\* `@param <name>` and the next @param or @return line, or the end of the
\* comment, is part of the text of that parameter, whether or not the marker
\* line has text after the name, and is part neither of the main description
\* nor of the text of another parameter.
C26_ContinuationLinesAppended ==
    (docRun.pc = "done" /\ ~IsSingleLineDoc(docRun.lines)) =>
        \A m \in 1..Len(docRun.lines), k \in 1..Len(docRun.lines) :
            ContinuesMarker(docRun.lines, m, k) =>
                /\ Includes(ParamDocOf(docRun.result.paramDocs,
                                       MarkerName(docRun.lines[m])),
                            docRun.lines[k])
                /\ ~Includes(docRun.result.mainDoc, docRun.lines[k])
                /\ \A q \in 1..Len(docRun.result.paramDocs) :
                      docRun.result.paramDocs[q][1] # MarkerName(docRun.lines[m]) =>
                          ~Includes(docRun.result.paramDocs[q][2], docRun.lines[k])

(***************************************************************************)
(* Claims about the parameters of parseMethodSignature.                    *)
(***************************************************************************)
\* the type texts of the parameters of the signature, in the order of the
\* matches of paramRegex
RECURSIVE ParameterTypeTexts(_, _)
ParameterTypeTexts(s, i) ==
    IF i > Len(s) THEN <<>>
    ELSE IF ParamMatchAt(s, i).ok
         THEN <<ParamMatchAt(s, i).g2>>
              \o ParameterTypeTexts(s, ParamMatchAt(s, i).end)
    ELSE ParameterTypeTexts(s, i + 1)

\* C27 (as claimed): every parameter whose type text holds `nullable` or
\* `_Nullable` has isNullable true, and the type of every parameter holds
\* neither of the two markers nor a `*`.
C27_NullableAndCanonicalType ==
    sigPc = "parsed" =>
        \A k \in 1..Len(method.parameters) :
            /\ (\/ Includes(ParameterTypeTexts(CleanSignature(signature), 1)[k],
                            StrNullable)
                \/ Includes(ParameterTypeTexts(CleanSignature(signature), 1)[k],
                            StrUnderscoreNullable)) =>
                  method.parameters[k].isNullable
            /\ ~Includes(method.parameters[k].type, StrNullable)
            /\ ~Includes(method.parameters[k].type, StrUnderscoreNullable)
            /\ ~Includes(method.parameters[k].type, StrStar)

(***************************************************************************)
(* Claims about the methods the emitted class reaches.                     *)
(***************************************************************************)
\* the selectors of the bridge calls of the emitted methods, set accessors
\* and overload branches
EmittedSelectors ==
    UNION {SelectorsOf(classDeclaration[e]) :
              e \in {f \in 1..Len(classDeclaration) :
                        classDeclaration[f].kind \in {"method", "set"}}}

\* C29 (as claimed): once a class is emitted, the selector of each of its
\* methods that is not an initializer is the selector of the bridge call of
\* an emitted method, set accessor or overload branch, also for the methods
\* of a group whose first method is setter-shaped.
C29_EveryMethodReachable ==
    genPc = "done" =>
        \A k \in 1..Len(cls.methods) :
            ~IsInitializer(cls.methods[k]) =>
                cls.methods[k].name \in EmittedSelectors

(***************************************************************************)
(* Specification SpecImport: the source files main creates for the classes *)
(* of one run (class mode), and those buildFile creates for the classes it *)
(* is called with; an iteration is followed up to the import of the parent *)
(* class.                                                                  *)
(***************************************************************************)
MaxClasses == 3

StrGeneratedDir ==
    <<".", "/", "s", "r", "c", "/", "g", "e", "n", "e", "r", "a", "t", "e", "d", "/">>
StrTsSuffix == <<".", "t", "s">>
StrObjc == <<"o", "b", "j", "c">>
StrObjcModule == <<".", ".", "/", "o", "b", "j", "c", ".", "t", "s">>

\* the names of the classes and of their superclasses
ClassNameTexts == {<<"F", "o">>, <<"B", "a">>}
SuperclassTexts == ClassNameTexts \cup {<<"N", "S", "O", "b", "j", "e", "c", "t">>}

\* the classes parseObjCHeaderFile extracts: each comes from a line
\* `@interface name : superclass`
ExtractedClassModels ==
    {parseClassDeclaration(StrInterface \o <<" ">> \o name \o <<" ", ":", " ">>
                           \o superclass) :
        name \in ClassNameTexts, superclass \in SuperclassTexts}

\* the classes buildFile can be called with: those, and classes without a
\* superclass
ClassRefs ==
    ExtractedClassModels
    \cup {[threw |-> FALSE, name |-> name, superclass |-> <<>>,
           protocols |-> <<>>, availability |-> <<>>] : name \in ClassNameTexts}

ImportDeclaration(defaultImport, namedImports, moduleSpecifier) ==
    [defaultImport |-> defaultImport, namedImports |-> namedImports,
     moduleSpecifier |-> moduleSpecifier]

\* the source file of a class after the imports are added; extends is the
\* superclass the class declaration is added with
SourceFileOf(c) ==
    [filePath |-> StrGeneratedDir \o c.name \o StrTsSuffix,
     imports |->
         <<ImportDeclaration(StrObjc, <<>>, StrObjc),
           ImportDeclaration(<<>>, <<StrId>>, StrObjcModule)>>
         \o (IF c.superclass # <<>>
             THEN <<ImportDeclaration(<<>>, <<c.superclass>>,
                                      <<".", "/">> \o c.superclass \o StrTsSuffix)>>
             ELSE <<>>),
     className |-> c.name,
     extends |-> c.superclass]

\* project.createSourceFile(filePath, "", { overwrite: true }) and the
\* additions to the file: a file of that path is replaced
createSourceFile(files, sourceFile) ==
    SelectSeq(files, LAMBDA f : f.filePath # sourceFile.filePath)
    \o <<sourceFile>>

ImportInit ==
    /\ decl = [head |-> 1, body |-> <<>>]
    /\ signature = <<>>
    /\ method = Threw
    /\ sigPc = "idle"
    /\ cls = NoClass
    /\ classDeclaration = <<>>
    /\ methodGroups = <<>>
    /\ groupIdx = 0
    /\ genPc = "idle"
    /\ call = NoCall
    /\ scan = Idle /\ propRun = Idle /\ convRun = Idle /\ docRun = Idle
    /\ reflowRun = Idle
    /\ \/ \E classes \in SeqsUpTo(MaxClasses, ExtractedClassModels) :
             importRun = [pc |-> "main", classes |-> classes, k |-> 1,
                          files |-> <<>>]
       \/ \E classes \in SeqsUpTo(MaxClasses, ClassRefs) :
             importRun = [pc |-> "buildFile", classes |-> classes, k |-> 1,
                          files |-> <<>>]

\* one iteration of the loop of main over the classes
CreateClassFile ==
    /\ importRun.pc = "main"
    /\ importRun.k <= Len(importRun.classes)
    /\ importRun' = [importRun EXCEPT
                       !.k = importRun.k + 1,
                       !.files = createSourceFile(
                                     importRun.files,
                                     SourceFileOf(importRun.classes[importRun.k]))]
    /\ UNCHANGED <<sigVars, genVars, scan, propRun, convRun, docRun, reflowRun>>

\* one call of buildFile
BuildFile ==
    /\ importRun.pc = "buildFile"
    /\ importRun.k <= Len(importRun.classes)
    /\ importRun' = [importRun EXCEPT
                       !.k = importRun.k + 1,
                       !.files = createSourceFile(
                                     importRun.files,
                                     SourceFileOf(importRun.classes[importRun.k]))]
    /\ UNCHANGED <<sigVars, genVars, scan, propRun, convRun, docRun, reflowRun>>

\* every class of the run has its file
AllFilesCreated ==
    /\ importRun.pc \in {"main", "buildFile"}
    /\ importRun.k > Len(importRun.classes)
    /\ importRun' = [importRun EXCEPT !.pc = "done"]
    /\ UNCHANGED <<sigVars, genVars, scan, propRun, convRun, docRun, reflowRun>>

ImportNext == CreateClassFile \/ BuildFile \/ AllFilesCreated

SpecImport == ImportInit /\ [][ImportNext]_vars

\* the file imports the generated module of the superclass of its class
ImportsSuperclassModule(f) ==
    \E i \in 1..Len(f.imports) :
        /\ f.imports[i].moduleSpecifier = <<".", "/">> \o f.extends \o StrTsSuffix
        /\ f.imports[i].namedImports = <<f.extends>>

\* the name is that of a class of the run
IsExtracted(name) ==
    \E k \in 1..Len(importRun.classes) : importRun.classes[k].name = name

\* C21 (as claimed): once the files of a run are created, a class file
\* imports the generated module of its superclass if and only if the class
\* has a superclass and that superclass is one of the classes of the run.
C21_SuperclassImportIffExtracted ==
    importRun.pc = "done" =>
        \A i \in 1..Len(importRun.files) :
            ImportsSuperclassModule(importRun.files[i])
                <=> (/\ importRun.files[i].extends # <<>>
                     /\ IsExtracted(importRun.files[i].extends))

(***************************************************************************)
(* The text of an emitted class, as the printer of ts-morph writes the     *)
(* members main adds: one member after the other, indented by four blanks, *)
(* with an empty line between two members when one of them has a body.     *)
(* The lines of the bodies are those main writes.                          *)
(***************************************************************************)
StrIndent == <<" ", " ", " ", " ">>
DigitSeq == <<"0", "1", "2", "3", "4", "5", "6", "7", "8", "9">>

\* texts.join(separator)
RECURSIVE JoinTexts(_, _)
JoinTexts(texts, separator) ==
    IF texts = <<>> THEN <<>>
    ELSE IF Len(texts) = 1 THEN texts[1]
    ELSE texts[1] \o separator \o JoinTexts(Tail(texts), separator)

\* `[...]name[?]: type`
ParameterText(p) ==
    (IF p.isRestParameter THEN <<".", ".", ".">> ELSE <<>>) \o p.name
    \o (IF p.hasQuestionToken THEN <<"?">> ELSE <<>>) \o <<":", " ">> \o p.type

\* `public [static ][get |set ]name(parameters)[: returnType]`
MemberHead(mem) ==
    <<"p", "u", "b", "l", "i", "c", " ">> \o (IF mem.isStatic THEN <<"s", "t", "a", "t",
                                                                     "i", "c", " ">> ELSE <<>>)
    \o (IF mem.kind = "get" THEN <<"g", "e", "t", " ">>
        ELSE IF mem.kind = "set" THEN <<"s", "e", "t", " ">> ELSE <<>>)
    \o mem.name \o <<"(">>
    \o JoinTexts([i \in 1..Len(mem.params) |-> ParameterText(mem.params[i])], <<",", " ">>)
    \o <<")">>
    \o (IF mem.returnType = <<>> THEN <<>> ELSE <<":", " ">> \o mem.returnType)

\* `${c.name}.Class` or `this.pointer`
TargetText(target, className) ==
    IF target = "Class" THEN className \o <<".", "C", "l", "a", "s", "s">> ELSE <<"t", "h",
                                                                                  "i", "s",
                                                                                  ".", "p",
                                                                                  "o", "i",
                                                                                  "n", "t",
                                                                                  "e", "r">>

\* `objc.msgSend(target, "selector", args);`
SendText(body, className) ==
    <<"o", "b", "j", "c", ".", "m", "s", "g", "S", "e", "n", "d", "(">> \o TargetText(body.target, className) \o <<
                                                                                                                   ",",
                                                                                                                   " ",
                                                                                                                   "\"">>
    \o body.selector \o <<"\"">>
    \o Concat([i \in 1..Len(body.args) |-> <<",", " ">> \o body.args[i]])
    \o <<")", ";">>

\* the lines of the body of an overload implementation
DispatchLines(body, className) ==
    <<<<"/", "/", " ", "D", "e", "t", "e", "r", "m", "i", "n", "e", " ", "w", "h", "i",
        "c", "h", " ", "m", "e", "t", "h", "o", "d", " ", "t", "o", " ", "c", "a", "l",
        "l", " ", "b", "a", "s", "e", "d", " ", "o", "n", " ", "a", "r", "g", "u", "m",
        "e", "n", "t", "s">>,
      <<"c", "o", "n", "s", "t", " ", "a", "l", "l", "A", "r", "g", "s", " ", "=", " ",
        "[", ".", ".", ".", "a", "r", "g", "s", "]", ";">>>>
    \o (IF body.namedParams = <<>> THEN <<>>
        ELSE <<<<"/", "/", " ", "A", "d", "d", " ", "n", "a", "m", "e", "d", " ", "p", "a",
                 "r", "a", "m", "e", "t", "e", "r", "s", " ", "t", "o", " ", "a", "r", "g",
                 "s", " ", "a", "r", "r", "a", "y", " ", "i", "f", " ", "t", "h", "e", "y",
                 " ", "e", "x", "i", "s", "t">>>>
             \o [i \in 1..Len(body.namedParams) |->
                    <<"i", "f", " ", "(">> \o body.namedParams[i] \o <<" ", "!", "=", "=",
                                                                       " ", "u", "n", "d",
                                                                       "e", "f", "i", "n",
                                                                       "e", "d", ")", " ",
                                                                       "a", "l", "l", "A",
                                                                       "r", "g", "s", ".",
                                                                       "u", "n", "s", "h",
                                                                       "i", "f", "t", "(">>
                    \o body.namedParams[i] \o <<")", ";">>])
    \o Concat([i \in 1..Len(body.branches) |->
                  <<(IF i = 1 THEN <<"i", "f", " ", "(">> ELSE <<"e", "l", "s", "e", " ",
                                                                 "i", "f", " ", "(">>)
                    \o <<"a", "l", "l", "A", "r", "g", "s", ".", "l", "e", "n", "g", "t",
                         "h", " ", "=", "=", "=", " ">>
                    \o <<DigitSeq[body.branches[i].arity + 1]>> \o <<")", " ", "{">>,
                    <<" ", " ", "r", "e", "t", "u", "r", "n", " ", "o", "b", "j", "c", ".",
                      "m", "s", "g", "S", "e", "n", "d", "(">> \o TargetText(body.target, className)
                    \o <<",", " ", "\"">> \o body.branches[i].selector \o <<"\"", ",", " ",
                                                                            ".", ".", ".",
                                                                            "a", "l", "l",
                                                                            "A", "r", "g",
                                                                            "s", ")", ";">>,
                    <<"}">>>>])
    \o <<<<"e", "l", "s", "e", " ", "{">>,
         <<" ", " ", "t", "h", "r", "o", "w", " ", "n", "e", "w", " ", "E", "r", "r", "o",
           "r", "(", "\"", "I", "n", "v", "a", "l", "i", "d", " ", "n", "u", "m", "b", "e",
           "r", " ", "o", "f", " ", "a", "r", "g", "u", "m", "e", "n", "t", "s", " ", "f",
           "o", "r", " ", "m", "e", "t", "h", "o", "d", " ">>
         \o body.errorName \o <<"\"", ")", ";">>,
         <<"}">>>>

\* the lines of the body of a member
BodyLines(mem, className) ==
    IF mem.kind = "constructor"
    THEN <<<<"s", "u", "p", "e", "r", "(", ")", ";">>,
           <<"t", "h", "i", "s", ".", "p", "o", "i", "n", "t", "e", "r", " ", "=", " ",
             "o", "b", "j", "c", ".", "m", "s", "g", "S", "e", "n", "d", "(", "o", "b",
             "j", "c", ".", "m", "s", "g", "S", "e", "n", "d", "(">> \o className
           \o <<".", "C", "l", "a", "s", "s", ",", " ", "\"", "a", "l", "l", "o", "c",
                "\"", ")", ",", " ", "\"", "i", "n", "i", "t", "\"", ")", ";">>>>
    ELSE IF mem.body.form = "dispatch" THEN DispatchLines(mem.body, className)
    ELSE IF mem.kind = "set" THEN <<SendText(mem.body, className)>>
    ELSE <<<<"r", "e", "t", "u", "r", "n", " ">> \o SendText(mem.body, className)>>

\* the text of one member
MemberText(mem, className) ==
    IF mem.kind = "property"
    THEN (IF mem.isStatic
          THEN <<"p", "r", "i", "v", "a", "t", "e", " ", "s", "t", "a", "t", "i", "c", " ",
                 "r", "e", "a", "d", "o", "n", "l", "y", " ", "C", "l", "a", "s", "s", " ",
                 "=", " ", "o", "b", "j", "c", ".", "c", "l", "a", "s", "s", "e", "s", "[",
                 "\"">> \o className
               \o <<"\"", "]", ";">>
          ELSE <<"p", "r", "o", "t", "e", "c", "t", "e", "d", " ", "p", "o", "i", "n", "t",
                 "e", "r", ":", " ", "i", "d", ";">>)
    ELSE IF ~mem.hasBody THEN MemberHead(mem) \o <<";">>
    ELSE MemberHead(mem) \o <<" ", "{">> \o <<Newline>>
         \o Concat([i \in 1..Len(BodyLines(mem, className)) |->
                       StrIndent \o StrIndent \o BodyLines(mem, className)[i]
                       \o <<Newline>>])
         \o StrIndent \o <<"}">>

\* the text of the source file of class c with the members cd
ClassText(c, cd) ==
    <<"i", "m", "p", "o", "r", "t", " ", "o", "b", "j", "c", " ", "f", "r", "o", "m", " ",
      "\"", "o", "b", "j", "c", "\"", ";">> \o <<Newline>>
    \o <<"i", "m", "p", "o", "r", "t", " ", "{", " ", "i", "d", " ", "}", " ", "f", "r",
         "o", "m", " ", "\"", ".", ".", "/", "o", "b", "j", "c", ".", "t", "s", "\"", ";">> \o <<Newline>>
    \o (IF c.superclass # <<>>
        THEN <<"i", "m", "p", "o", "r", "t", " ", "{", " ">> \o c.superclass \o <<" ", "}",
                                                                                  " ", "f",
                                                                                  "r", "o",
                                                                                  "m", " ",
                                                                                  "\"",
                                                                                  ".", "/">> \o c.superclass
             \o <<".", "t", "s", "\"", ";">> \o <<Newline>>
        ELSE <<>>)
    \o <<Newline>> \o <<"e", "x", "p", "o", "r", "t", " ", "c", "l", "a", "s", "s", " ">> \o c.name
    \o (IF c.superclass # <<>> THEN <<" ", "e", "x", "t", "e", "n", "d", "s", " ">> \o c.superclass ELSE <<>>)
    \o <<" ", "{">> \o <<Newline>>
    \o Concat([i \in 1..Len(cd) |->
                  (IF i > 1 /\ (cd[i].hasBody \/ cd[i - 1].hasBody)
                   THEN <<Newline>> ELSE <<>>)
                  \o StrIndent \o MemberText(cd[i], c.name) \o <<Newline>>])
    \o <<"}">> \o <<Newline>>

\* the members of the class after the loop over the groups
RECURSIVE EmitGroups(_, _)
EmitGroups(cd, groups) ==
    IF groups = <<>> THEN cd
    ELSE EmitGroups(EmitGroup(cd, Head(groups)), Tail(groups))

\* the members main adds for class c
EmittedMembers(c) ==
    EmitGroups(ClassWithProperties(c), GroupLoop(c.methods, <<>>).groups)

(***************************************************************************)
(* The post-processing pass of main on the text of one generated file.     *)
(* The regular expressions are evaluated on positions of the text; the     *)
(* texts are long, so the positions are taken from sets, not by recursion. *)
(***************************************************************************)
\* the least number of a non-empty set of numbers
Least(S) == CHOOSE p \in S : \A q \in S : p <= q

\* text.indexOf(lit, from) on 1-based positions, 0 when there is none
TextIndexOf(text, lit, from) ==
    IF \E p \in from..Len(text) : OccursAt(text, lit, p)
    THEN Least({p \in from..Len(text) : OccursAt(text, lit, p)})
    ELSE 0

\* text.replace(lit, by) with a string lit: the first occurrence is replaced
\* (no text of the model holds a `$`, which by would interpret)
TextReplace(text, lit, by) ==
    IF TextIndexOf(text, lit, 1) = 0 THEN text
    ELSE Sub(text, 1, TextIndexOf(text, lit, 1)) \o by
         \o Sub(text, TextIndexOf(text, lit, 1) + Len(lit), Len(text) + 1)

\* the position just past the run of characters of class C that starts at i
TextRunEnd(text, i, C) ==
    IF i > Len(text) THEN i
    ELSE Least({p \in i..(Len(text) + 1) : p = Len(text) + 1 \/ text[p] \notin C})

\* the first position, not before from, of the white space that ends just
\* before position q (the start of a greedy \s+ found by a search from `from`)
SpaceStart(text, q, from) ==
    Least({p \in from..q : \A r \in p..(q - 1) : text[r] \in SpaceChars})

\* `public [static ]baseMethodName(`, the literal start of both expressions
MethodPattern(isClassMethod, baseMethodName) ==
    <<"p", "u", "b", "l", "i", "c", " ">> \o (IF isClassMethod THEN <<"s", "t", "a", "t",
                                                                      "i", "c", " ">> ELSE <<>>)
    \o baseMethodName \o <<"(">>

\* the position just past a match of `[^)]*\): [^;]+;` that follows the
\* pattern found at position q, 0 when there is none
OverloadEnd(text, pattern, q) ==
    ValueOf({IF b = 0 \/ ~OccursAt(text, <<")", ":", " ">>, b) \/ b + 3 > Len(text)
                \/ OccursAt(text, <<";">>, b + 3)
                \/ TextIndexOf(text, <<";">>, b + 4) = 0
             THEN 0
             ELSE TextIndexOf(text, <<";">>, b + 4) + 1 :
        b \in {TextIndexOf(text, <<")">>, q + Len(pattern))}})

\* overloadRegex.exec(fileContent) with lastIndex at position from: the
\* positions of the pattern at which a match ends its white space
OverloadHeads(text, pattern, from) ==
    {q \in (from + 1)..Len(text) :
        /\ OccursAt(text, pattern, q)
        /\ text[q - 1] \in SpaceChars
        /\ OverloadEnd(text, pattern, q) # 0}

\* the while loop over overloadRegex.exec: matchResult[0] of every match
RECURSIVE OverloadMatches(_, _, _)
OverloadMatches(text, pattern, from) ==
    IF OverloadHeads(text, pattern, from) = {} THEN <<>>
    ELSE ValueOf({<<Sub(text, SpaceStart(text, q, from),
                        OverloadEnd(text, pattern, q))>>
                  \o OverloadMatches(text, pattern, OverloadEnd(text, pattern, q)) :
             q \in {Least(OverloadHeads(text, pattern, from))}})

\* implementationRegex.exec(fileContent): implementationMatch[0], the white
\* space, the pattern and the text up to the first `{`; <<>> for null
ImplementationMatch(text, pattern) ==
    ValueOf({IF Q = {} THEN <<>>
             ELSE Sub(text, SpaceStart(text, Least(Q), 1),
                      TextIndexOf(text, <<"{">>, Least(Q) + Len(pattern)) + 1) :
        Q \in {{q \in 2..Len(text) :
                   /\ OccursAt(text, pattern, q)
                   /\ text[q - 1] \in SpaceChars
                   /\ TextIndexOf(text, <<"{">>, q + Len(pattern)) # 0}}})

\* the loop that removes the overload signatures from the file
RemoveOverloadsMutant(fileContent, overloadMatches) == fileContent

RECURSIVE RemoveOverloads(_, _)
RemoveOverloads(fileContent, overloadMatches) ==
    IF overloadMatches = <<>> THEN fileContent
    ELSE RemoveOverloads(TextReplace(fileContent, Head(overloadMatches), <<>>),
                         Tail(overloadMatches))

\* the file after the signatures are removed and inserted before the
\* implementation
InsertOverloads(fileContent, overloadMatches, implementation) ==
    IF implementation = <<>> THEN fileContent
    ELSE IF overloadMatches = <<>> THEN fileContent
    ELSE TextReplace(RemoveOverloads(fileContent, overloadMatches),
                     implementation,
                     JoinTexts(overloadMatches, <<Newline>>) \o <<Newline>>
                     \o implementation)

\* one iteration of the loop over Object.entries(methodGroups)
ReflowGroup(fileContent, group) ==
    IF Len(group.methods) <= 1 THEN fileContent
    ELSE ValueOf({InsertOverloads(fileContent,
                                  OverloadMatches(fileContent, pattern, 1),
                                  ImplementationMatch(fileContent, pattern)) :
             pattern \in {MethodPattern(KeyIsClassMethod(group.key),
                                        KeyBaseMethodName(group.key))}})

RECURSIVE ReflowGroups(_, _)
ReflowGroups(fileContent, groups) ==
    IF groups = <<>> THEN fileContent
    ELSE ReflowGroups(ReflowGroup(fileContent, Head(groups)), Tail(groups))

\* the position just past a run of white space from position a on that holds
\* a line feed (\s*\n\s*), 0 when the run holds none
LineBreakEnd(text, a) ==
    IF \E r \in a..(TextRunEnd(text, a, SpaceChars) - 1) : text[r] = Newline
    THEN TextRunEnd(text, a, SpaceChars) ELSE 0

StrOverloadTag == <<"@", "o", "v", "e", "r", "l", "o", "a", "d">>
StrAddNamedParameters == <<"A", "d", "d", " ", "n", "a", "m", "e", "d", " ", "p", "a", "r",
                           "a", "m", "e", "t", "e", "r", "s">>

\* missingMethodRegex tried at position p: the positions of the method name
\* and the position just past the match, ok FALSE when there is no match
MissingMethodMatchAt(text, p) ==
    IF ~OccursAt(text, <<"/", "*", "*">>, p)
    THEN [ok |-> FALSE, methodName |-> <<>>, end |-> 0]
    ELSE ValueOf({
        IF /\ star # 0 /\ OccursAt(text, <<"*">>, star)
           /\ OccursAt(text, StrOverloadTag, tag)
           /\ name > tag + Len(StrOverloadTag)
           /\ paren > name /\ OccursAt(text, <<"(">>, paren)
           /\ close # 0 /\ OccursAt(text, <<")", ":">>, close)
           /\ TextIndexOf(text, <<"*">>, close + 2) # 0
           /\ OccursAt(text, <<"*", "/">>, TextIndexOf(text, <<"*">>, close + 2))
        THEN ValueOf({
               IF slashes # 0 /\ OccursAt(text, <<"/", "/">>, slashes)
                  /\ OccursAt(text, StrAddNamedParameters,
                              TextRunEnd(text, slashes + 2, SpaceChars))
               THEN [ok |-> TRUE, methodName |-> Sub(text, name, paren),
                     end |-> TextRunEnd(text, slashes + 2, SpaceChars)
                             + Len(StrAddNamedParameters)]
               ELSE [ok |-> FALSE, methodName |-> <<>>, end |-> 0] :
               slashes \in {LineBreakEnd(text,
                                TextIndexOf(text, <<"*">>, close + 2) + 2)}})
        ELSE [ok |-> FALSE, methodName |-> <<>>, end |-> 0] :
        star \in {LineBreakEnd(text, p + 3)},
        tag \in {TextRunEnd(text, LineBreakEnd(text, p + 3) + 1, SpaceChars)},
        name \in {TextRunEnd(text,
                      TextRunEnd(text, LineBreakEnd(text, p + 3) + 1, SpaceChars)
                      + Len(StrOverloadTag), SpaceChars)},
        paren \in {TextRunEnd(text,
                      TextRunEnd(text,
                          TextRunEnd(text, LineBreakEnd(text, p + 3) + 1, SpaceChars)
                          + Len(StrOverloadTag), SpaceChars), WordChars)},
        close \in {TextIndexOf(text, <<")">>,
                      TextRunEnd(text,
                          TextRunEnd(text,
                              TextRunEnd(text, LineBreakEnd(text, p + 3) + 1,
                                         SpaceChars)
                              + Len(StrOverloadTag), SpaceChars), WordChars) + 1)}})

\* the method declaration inserted after the comment that ends before the
\* match found at position p
WithMethodDeclaration(fileContent, p, methodName) ==
    ValueOf({Sub(fileContent, 1, commentEndIndex)
             \o <<Newline>> \o StrIndent
             \o MethodPattern(
                    Includes(Sub(fileContent, IF p > 50 THEN p - 50 ELSE 1, p),
                             <<"s", "t", "a", "t", "i", "c">>),
                    methodName)
             \o <<"n", "a", "m", "e", "?", ":", " ", "i", "d", ",", " ", "d", "e", "s",
                  "c", "r", "i", "p", "t", "i", "o", "n", "?", ":", " ", "i", "d", ",",
                  " ", "v", "a", "l", "u", "e", "?", ":", " ", "n", "u", "m", "b", "e",
                  "r", ",", " ", ".", ".", ".", "a", "r", "g", "s", ":", " ", "a", "n",
                  "y", "[", "]", ")", ":", " ", "a", "n", "y", " ", "{">>
             \o <<Newline>>
             \o Sub(fileContent, commentEndIndex, Len(fileContent) + 1) :
        commentEndIndex \in {TextIndexOf(fileContent, <<"*", "/">>, p) + 2}})

\* the while loop over missingMethodRegex.exec, lastIndex at position from
RECURSIVE FixMissingMethods(_, _)
FixMissingMethods(fileContent, from) ==
    ValueOf({IF P = {} THEN fileContent
             ELSE FixMissingMethods(
                      WithMethodDeclaration(
                          fileContent, Least(P),
                          MissingMethodMatchAt(fileContent, Least(P)).methodName),
                      MissingMethodMatchAt(fileContent, Least(P)).end) :
        P \in {{p \in from..Len(fileContent) :
                   MissingMethodMatchAt(fileContent, p).ok}}})

\* the file after the pass: the content written back
PostProcess(fileContent, groups) ==
    FixMissingMethods(ReflowGroups(fileContent, groups), 1)

(***************************************************************************)
(* processSourceFile of format-ts-file.ts on the members of one class.     *)
(* The members are told apart by their positions in the class it is given. *)
(***************************************************************************)
\* classDeclaration.getMethods(): the positions of the method declarations;
\* listed tells whether the library counts a declaration without a body
\* (an overload signature) among them
getMethods(members, listed) ==
    SelectSeq([i \in 1..Len(members) |-> i],
              LAMBDA i : /\ members[i].kind = "method"
                         /\ (listed \/ members[i].hasBody))

\* `${isStatic ? "static_" : ""}${name}`
MemberKey(mem) == (IF mem.isStatic THEN StrStaticPrefix ELSE <<>>) \o mem.name

\* methods.forEach: the Map from key to the methods with that key, in the
\* order the keys are set; a method named constructor is skipped
RECURSIVE MemberGroups(_, _, _)
MemberGroups(members, methods, groups) ==
    IF methods = <<>> THEN groups
    ELSE MemberGroups(members, Tail(methods),
             IF members[Head(methods)].name = <<"c", "o", "n", "s", "t", "r", "u", "c",
                                                "t", "o", "r">> THEN groups
             ELSE PushToGroup(groups, MemberKey(members[Head(methods)]),
                              Head(methods)))

\* the group has exactly one implementation and at least one signature
IsOverloadGroup(members, methodGroup) ==
    /\ Len(methodGroup) > 1
    /\ Len(SelectSeq(methodGroup, LAMBDA i : members[i].hasBody)) = 1
    /\ SelectSeq(methodGroup, LAMBDA i : ~members[i].hasBody) # <<>>

\* the position in order of the method of the group that starts first
FirstMethodAt(order, methodGroup) ==
    Least({k \in 1..Len(order) :
              \E g \in 1..Len(methodGroup) : methodGroup[g] = order[k]})

\* one call of the function given to methodGroups.forEach: the first method
\* of the group is replaced by the signatures and the implementation, the
\* other methods of the group are removed
ProcessMethodGroup(members, order, methodGroup) ==
    IF ~IsOverloadGroup(members, methodGroup) THEN order
    ELSE SelectSeq(SubSeq(order, 1, FirstMethodAt(order, methodGroup) - 1),
                   LAMBDA i : \A g \in 1..Len(methodGroup) : methodGroup[g] # i)
         \o SelectSeq(methodGroup, LAMBDA i : ~members[i].hasBody)
         \o SelectSeq(methodGroup, LAMBDA i : members[i].hasBody)
         \o SelectSeq(SubSeq(order, FirstMethodAt(order, methodGroup) + 1,
                             Len(order)),
                      LAMBDA i : \A g \in 1..Len(methodGroup) : methodGroup[g] # i)

RECURSIVE ProcessMethodGroups(_, _, _)
ProcessMethodGroups(members, order, groups) ==
    IF groups = <<>> THEN order
    ELSE ProcessMethodGroups(members,
                             ProcessMethodGroup(members, order, Head(groups).methods),
                             Tail(groups))

\* the order of the members of the class after processSourceFile
ProcessedOrder(members, listed) ==
    ProcessMethodGroups(members, [i \in 1..Len(members) |-> i],
                        MemberGroups(members, getMethods(members, listed), <<>>))

\* the members of the class after processSourceFile
processSourceFile(members, listed) ==
    [k \in 1..Len(ProcessedOrder(members, listed)) |->
        members[ProcessedOrder(members, listed)[k]]]

(***************************************************************************)
(* Specification SpecReflow: the overload reflow of one class file.  Tool  *)
(* "main" is the post-processing pass of generate-ts-api.ts on the file of *)
(* the class as the generator emits it, or on no file; the pass runs once  *)
(* per extracted class on every file.  Tool "format" is groupMethodOverloads*)
(* of format-ts-file.ts on a class with the emitted members, in the        *)
(* emitted order or with one member moved to the end of the class.         *)
(***************************************************************************)
MaxPasses == 2

\* the classes whose emission reaches the post-processing pass, without a
\* property or with the read-write property
ReflowClassModels ==
    {c \in ClassModels : /\ ~GroupLoop(c.methods, <<>>).threw
                         /\ c.properties \in {<<>>, <<PropertyModels[2]>>}}

\* the members with the i-th member moved to the end of the class
MovedToEnd(members, i) ==
    SubSeq(members, 1, i - 1) \o SubSeq(members, i + 1, Len(members))
    \o <<members[i]>>

\* the classes given to groupMethodOverloads
FormatInputs(c) ==
    {EmittedMembers(c)}
    \cup {MovedToEnd(EmittedMembers(c), i) : i \in 1..Len(EmittedMembers(c))}

ReflowRun(tool, c, exists, listed, fileContent, members) ==
    [pc |-> "reflow", tool |-> tool, cls |-> c, exists |-> exists,
     listed |-> listed, emitted |-> fileContent, fileContent |-> fileContent,
     before |-> fileContent, input |-> members, members |-> members,
     membersBefore |-> members, passes |-> 0]

ReflowInit ==
    /\ decl = [head |-> 1, body |-> <<>>]
    /\ signature = <<>>
    /\ method = Threw
    /\ sigPc = "idle"
    /\ cls = NoClass
    /\ classDeclaration = <<>>
    /\ methodGroups = <<>>
    /\ groupIdx = 0
    /\ genPc = "idle"
    /\ call = NoCall
    /\ scan = Idle /\ propRun = Idle /\ convRun = Idle /\ docRun = Idle
    /\ importRun = Idle
    /\ \E c \in ReflowClassModels :
          \/ reflowRun = ReflowRun("main", c, TRUE, FALSE,
                                   ClassText(c, EmittedMembers(c)), <<>>)
          \/ reflowRun = ReflowRun("main", c, FALSE, FALSE, <<>>, <<>>)
          \/ \E listed \in BOOLEAN, members \in FormatInputs(c) :
                reflowRun = ReflowRun("format", c, TRUE, listed, <<>>, members)

\* one iteration of the inner loop over the classes: the file is read,
\* rewritten and written back; a file that cannot be read throws into the
\* catch, which warns
PostProcessFile ==
    /\ reflowRun.pc = "reflow"
    /\ reflowRun.tool = "main"
    /\ reflowRun.passes < MaxPasses
    /\ reflowRun' =
          IF ~reflowRun.exists
          THEN [reflowRun EXCEPT !.passes = reflowRun.passes + 1]
          ELSE [reflowRun EXCEPT
                  !.passes = reflowRun.passes + 1,
                  !.before = reflowRun.fileContent,
                  !.fileContent =
                      PostProcess(reflowRun.fileContent,
                                  GroupLoop(reflowRun.cls.methods, <<>>).groups)]
    /\ UNCHANGED <<sigVars, genVars, scan, propRun, convRun, docRun, importRun>>

\* groupMethodOverloads on the class as the last call left it
GroupMethodOverloads ==
    /\ reflowRun.pc = "reflow"
    /\ reflowRun.tool = "format"
    /\ reflowRun.passes < MaxPasses
    /\ reflowRun' =
          [reflowRun EXCEPT
             !.passes = reflowRun.passes + 1,
             !.membersBefore = reflowRun.members,
             !.members = processSourceFile(reflowRun.members, reflowRun.listed)]
    /\ UNCHANGED <<sigVars, genVars, scan, propRun, convRun, docRun, importRun>>

ReflowNext == PostProcessFile \/ GroupMethodOverloads

SpecReflow == ReflowInit /\ [][ReflowNext]_vars

(***************************************************************************)
(* Claims on the overload reflow.                                          *)
(***************************************************************************)
\* the overload groups of a class: the positions of the methods of each
\* group with exactly one implementation and at least one signature
OverloadGroupsOf(members) ==
    SelectSeq([g \in 1..Len(MemberGroups(members, getMethods(members, TRUE), <<>>)) |->
                  MemberGroups(members, getMethods(members, TRUE), <<>>)[g].methods],
              LAMBDA methodGroup : IsOverloadGroup(members, methodGroup))

\* the signatures of the group in declaration order, then the implementation
GroupBlock(members, methodGroup) ==
    [k \in 1..Len(methodGroup) |->
        members[(SelectSeq(methodGroup, LAMBDA i : ~members[i].hasBody)
                 \o SelectSeq(methodGroup, LAMBDA i : members[i].hasBody))[k]]]

\* the member at position i belongs to an overload group
InOverloadGroup(members, i) ==
    \E g \in 1..Len(OverloadGroupsOf(members)) :
        \E k \in 1..Len(OverloadGroupsOf(members)[g]) :
            OverloadGroupsOf(members)[g][k] = i

\* the members outside the overload groups, in order
OtherMembers(members) ==
    [k \in 1..Len(SelectSeq([i \in 1..Len(members) |-> i],
                            LAMBDA i : ~InOverloadGroup(members, i))) |->
        members[SelectSeq([i \in 1..Len(members) |-> i],
                          LAMBDA i : ~InOverloadGroup(members, i))[k]]]

\* the texts stand in the text one after another from position p on, with
\* white space only between them
RECURSIVE FollowFrom(_, _, _)
FollowFrom(text, texts, p) ==
    \/ texts = <<>>
    \/ /\ OccursAt(text, Head(texts), TextRunEnd(text, p, SpaceChars))
       /\ FollowFrom(text, Tail(texts),
                     TextRunEnd(text, p, SpaceChars) + Len(Head(texts)))

BlocksTogether(text, texts) ==
    \E p \in 1..Len(text) : FollowFrom(text, texts, p)

\* the texts occur in the text in the given order, from position p on
RECURSIVE InOrderFrom(_, _, _)
InOrderFrom(text, texts, p) ==
    \/ texts = <<>>
    \/ /\ TextIndexOf(text, Head(texts), p) # 0
       /\ InOrderFrom(text, Tail(texts),
                      TextIndexOf(text, Head(texts), p) + Len(Head(texts)))

MemberTexts(members, className) ==
    [i \in 1..Len(members) |-> MemberText(members[i], className)]

\* the file holds every overload group as one block and the other members
\* with their texts, in their order
TextReflowed(members, className, fileContent) ==
    /\ \A g \in 1..Len(OverloadGroupsOf(members)) :
          BlocksTogether(fileContent,
              MemberTexts(GroupBlock(members, OverloadGroupsOf(members)[g]),
                          className))
    /\ InOrderFrom(fileContent, MemberTexts(OtherMembers(members), className), 1)

\* the class holds every overload group as one run of members and the other
\* members in their order
MembersReflowed(input, members) ==
    /\ \A g \in 1..Len(OverloadGroupsOf(input)) :
          \E k \in 0..Len(members) :
             /\ k + Len(OverloadGroupsOf(input)[g]) <= Len(members)
             /\ SubSeq(members, k + 1, k + Len(OverloadGroupsOf(input)[g]))
                   = GroupBlock(input, OverloadGroupsOf(input)[g])
    /\ OtherMembers(members) = OtherMembers(input)
    /\ Len(members) = Len(input)

\* C22: after the reflow every overload group with at least one signature
\* and exactly one implementation has its signatures, in declaration order,
\* immediately above the implementation; the other members keep their text
\* and their relative position; a class whose groups are not located is left
\* as it was.
C22_SignaturesAboveImplementation ==
    (reflowRun.pc = "reflow" /\ reflowRun.passes >= 1) =>
        IF reflowRun.tool = "main"
        THEN reflowRun.exists =>
                TextReflowed(EmittedMembers(reflowRun.cls), reflowRun.cls.name,
                             reflowRun.fileContent)
        ELSE IF reflowRun.listed
        THEN MembersReflowed(reflowRun.input, reflowRun.members)
        ELSE reflowRun.members = reflowRun.input

\* the part of C22 on groupMethodOverloads alone
C22_FormatToolReflows ==
    (reflowRun.pc = "reflow" /\ reflowRun.passes >= 1
       /\ reflowRun.tool = "format") =>
        IF reflowRun.listed
        THEN MembersReflowed(reflowRun.input, reflowRun.members)
        ELSE reflowRun.members = reflowRun.input

\* a class whose signatures were apart from the implementation was reflowed
C22_FormatToolWitness ==
    /\ reflowRun.pc = "reflow" /\ reflowRun.tool = "format"
    /\ reflowRun.passes >= 1 /\ reflowRun.listed
    /\ reflowRun.members # reflowRun.input

\* C23: the reflow is idempotent: a pass over the output of a pass returns
\* that output unchanged.
C23_ReflowIdempotent ==
    (reflowRun.pc = "reflow" /\ reflowRun.passes >= 2) =>
        /\ reflowRun.fileContent = reflowRun.before
        /\ reflowRun.members = reflowRun.membersBefore

\* a second pass ran over a file the first pass had changed
C23_Witness ==
    /\ reflowRun.pc = "reflow" /\ reflowRun.tool = "main" /\ reflowRun.exists
    /\ reflowRun.passes = 2
    /\ reflowRun.before # reflowRun.emitted

\* a second call ran over a class the first call had changed
C23_FormatWitness ==
    /\ reflowRun.pc = "reflow" /\ reflowRun.tool = "format"
    /\ reflowRun.passes = 2
    /\ reflowRun.membersBefore # reflowRun.input

====
